---- MODULE Spec2Model ----
(***************************************************************************)
(* License-key lifecycle manager (chat bot backed by a document store).    *)
(* Model of src/unnamed/part_000: key codec, batched mutation executor,    *)
(* reconciliation engine (refreshUserKeys), key cache, single-flight guard *)
(* and the interaction handlers that use them.                             *)
(***************************************************************************)
EXTENDS Integers, Sequences, FiniteSets, TLC

VARIABLES
    keys,                   \* collection 'keys': doc id -> record | NoDoc
    generated_keys,         \* collection 'generated_keys': doc id -> record | NoDoc
    whitelist,              \* collection 'whitelist': user id -> record | NoDoc
    blacklist,              \* collection 'blacklist': set of user ids with a doc
    userKeyCache,           \* Collection userId -> cache entry | NoEntry
    cooldowns,              \* Collection userId -> expiry time | Null
    activeOperations,       \* Collection "<userId>-<kind>" -> timestamp
    backgroundRefreshQueue, \* Set of user ids
    now,                    \* Date.now()
    task,                   \* running handlers / calls: task id -> frame
    started,                \* number of handlers started so far
    codec,                  \* isValidKeyFormat call: [token, result]
    batchRun,               \* stand-alone safeBatchCommit call
    guard,                  \* last startOperation / endOperation call and its result
    issued                  \* key texts /genkey has sent out, in order

vars == <<keys, generated_keys, whitelist, blacklist, userKeyCache, cooldowns,
          activeOperations, backgroundRefreshQueue, now, task, started,
          codec, batchRun, guard, issued>>

storeVars == <<keys, generated_keys, whitelist, blacklist>>
memVars == <<userKeyCache, cooldowns, activeOperations, backgroundRefreshQueue>>
obsVars == <<codec, batchRun, guard, issued>>

\* null / undefined of a string field, of a timestamp or number field, of a label
Null == "null"
NullTime == -1
NoTag == <<>>

\* a document that does not exist (snapshot.exists = false), per collection
NoKeyDoc == [exists |-> FALSE, userId |-> Null, usedByDiscord |-> NoTag,
             whitelisted |-> FALSE, expiresAt |-> NullTime, hwid |-> "", hwidLimit |-> 0]
NoPendingDoc == [exists |-> FALSE, expiresInDays |-> NullTime]
NoWhitelistDoc == [exists |-> FALSE, key |-> <<>>, discordTag |-> NoTag]
\* userKeyCache.get(userId) === undefined
NoEntry == [present |-> FALSE, keys |-> <<>>, expires |-> 0, lastRefresh |-> 0]

\* ==================== CONSTANTS ====================
KEY_PREFIX == <<"V", "O", "R", "A", "H", "U", "B">>
CACHE_DURATION == 300000
CACHE_SOFT_REFRESH == 60000
COOLDOWN_DURATION == 3000
BATCH_LIMIT == 450
ALIAS_LIMIT == 5
DAY_MS == 86400000

\* ==================== KEY IDENTITY CODEC ====================
HexUpper == {"0", "1", "2", "3", "4", "5", "6", "7", "8", "9",
             "A", "B", "C", "D", "E", "F"}
GROUP_LEN == 6
GROUP_COUNT == 3

\* One "-[A-F0-9]{6}" piece of the pattern: a sequence of character classes.
HexGroupAtoms == <<{"-"}>> \o [j \in 1..GROUP_LEN |-> HexUpper]

RECURSIVE RepeatAtoms(_, _)
RepeatAtoms(atoms, n) == IF n = 0 THEN <<>> ELSE atoms \o RepeatAtoms(atoms, n - 1)

\* ^VORAHUB-[A-F0-9]{6}-[A-F0-9]{6}-[A-F0-9]{6}$ as one character class
\* per position; the anchors make the match cover the whole input.
KeyRegex == [i \in 1..Len(KEY_PREFIX) |-> {KEY_PREFIX[i]}]
              \o RepeatAtoms(HexGroupAtoms, GROUP_COUNT)

\* a plausible slip: the pattern built with the case-insensitive flag
KeyRegexIgnoreCase ==
    [i \in 1..Len(KeyRegex) |->
        KeyRegex[i] \cup (IF "A" \in KeyRegex[i] /\ Cardinality(KeyRegex[i]) > 1
                          THEN {"a", "b", "c", "d", "e", "f"} ELSE {})]

RegexTest(regex, s) ==
    /\ Len(s) = Len(regex)
    /\ \A i \in 1..Len(regex) : s[i] \in regex[i]

isValidKeyFormat_IgnoreCase(key) == RegexTest(KeyRegexIgnoreCase, key)

isValidKeyFormat(key) == RegexTest(KeyRegex, key)

\* ==================== BATCHED MUTATION EXECUTOR ====================
\* One iteration of the for-loop of safeBatchCommit: op(currentBatch);
\* count++; a full batch is pushed and a new one created ('created' counts
\* the db.batch() calls, count = Len(currentBatch)).
BatchStep(st, op) ==
    LET filled == Append(st.currentBatch, op) IN
    IF Len(filled) >= BATCH_LIMIT
    THEN [batches |-> Append(st.batches, filled), currentBatch |-> <<>>,
          created |-> st.created + 1]
    ELSE [batches |-> st.batches, currentBatch |-> filled, created |-> st.created]

\* for (const op of operations): the iterations lo..hi in list order
\* (evaluated by halving, which keeps the evaluation depth logarithmic)
RECURSIVE BatchLoop(_, _, _, _)
BatchLoop(operations, lo, hi, st) ==
    IF lo > hi THEN st
    ELSE IF lo = hi THEN BatchStep(st, operations[lo])
    ELSE LET mid == (lo + hi) \div 2 IN
         \* the state after the first half is bound as a value before the
         \* second half runs
         CHOOSE r \in { BatchLoop(operations, mid + 1, hi, left) :
                           left \in {BatchLoop(operations, lo, mid, st)} } : TRUE

BatchStart == [batches |-> <<>>, currentBatch |-> <<>>, created |-> 1]

\* a plausible slip: the trailing partial batch is pushed unconditionally
safeBatchSplit_PushAlways(operations) ==
    IF Len(operations) = 0
    THEN [batches |-> <<>>, created |-> 0]
    ELSE LET r == BatchLoop(operations, 1, Len(operations), BatchStart) IN
         [batches |-> Append(r.batches, r.currentBatch), created |-> r.created]

\* The batches safeBatchCommit hands to commit(), in order.
safeBatchSplit(operations) ==
    IF Len(operations) = 0
    THEN [batches |-> <<>>, created |-> 0]
    ELSE LET r == BatchLoop(operations, 1, Len(operations), BatchStart) IN
         [batches |-> IF Len(r.currentBatch) > 0
                      THEN Append(r.batches, r.currentBatch)
                      ELSE r.batches,
          created |-> r.created]

\* ==================== MODEL UNIVERSE ====================
\* identities (platform ids) and their alias labels (user.tag)
Users == {"101", "102"}
TagOf(u) == IF u = "101" THEN <<"a", "#", "1">> ELSE <<"b">>
AdminTag == <<"s">>

\* generateKey() output: three groups of six upper-case hex digits
KeyA == KEY_PREFIX \o <<"-", "A", "B", "C", "D", "E", "F", "-", "1", "2", "3", "4", "5", "6",
                        "-", "7", "8", "9", "0", "1", "2">>
KeyB == KEY_PREFIX \o <<"-", "B", "B", "C", "D", "E", "F", "-", "1", "2", "3", "4", "5", "6",
                        "-", "7", "8", "9", "0", "1", "2">>
\* document ids in the store's default (document-name) order
KeyOrder == <<KeyA, KeyB>>
KeyIds == {KeyOrder[i] : i \in 1..Len(KeyOrder)}

TaskIds == {1, 2, 3}
StartTime == 2 * CACHE_DURATION

NoStore == [keys |-> << >>, generated_keys |-> << >>, whitelist |-> << >>, blacklist |-> {}]

NoPrior == [returned |-> FALSE, force |-> FALSE, refreshes |-> 0, result |-> <<>>,
            calledAt |-> 0]

\* no holder was named
NoHolder == [from |-> "none", label |-> NoTag, userId |-> Null]

\* a frame of a handler or call that is not running
IdleFrame ==
    [op |-> "idle", pc |-> "idle", userId |-> Null, tag |-> NoTag,
     inputKey |-> <<>>, force |-> FALSE, isBackground |-> FALSE, ret |-> Null,
     pendingReads |-> {}, userIdSnapshot |-> <<>>, whitelistDoc |-> NoWhitelistDoc,
     tagSnapshot |-> <<>>, usernameSnapshot |-> <<>>, keyDoc |-> NoKeyDoc,
     classifiedAt |-> 0, keySet |-> <<>>, updateOperations |-> <<>>,
     operations |-> <<>>, userKeys |-> <<>>, result |-> <<>>, outcome |-> "none",
     \* /syncvip: the premium members not yet visited; /sethwidlimit: the limit
     members |-> <<>>, newLimit |-> 0,
     \* bot.js: the expired records a lookup found; for the detached batch,
     \* the batch.commit() calls made, the failures counted, the timer's due time
     expiredKeys |-> <<>>, attempts |-> 0, retryCount |-> 0, dueAt |-> 0,
     \* observation: the bot.js handler that had ended when the call began
     \* ("overlapped" once another handler commits during the call)
     after |-> [op |-> "none", outcome |-> "none"],
     queries |-> 0, trips |-> 0, refreshes |-> 0, marker |-> FALSE,
     \* observations on redeem_submit: the place of the interaction among the
     \* calls begun, and the successful redemptions of the identity (place and
     \* arrival time) known when it arrived
     seq |-> 0, earlier |-> {},
     \* observations: when the call arrived, how its last refresh ended,
     \* and the cache entry and the store as they were when it returned
     calledAt |-> 0, startTime |-> 0, rfStatus |-> "none",
     cacheAtReturn |-> NoEntry, storeAtReturn |-> NoStore,
     \* the cache entry of the identity as its last refresh found it
     cacheAtEntry |-> NoEntry,
     \* the holder named in the reply of a refused redemption
     shown |-> NoHolder,
     \* the direct call that used this frame before, if it returned
     prior |-> NoPrior]

EmptyStoreInit ==
    /\ keys = [k \in KeyIds |-> NoKeyDoc]
    /\ generated_keys = [k \in KeyIds |-> NoPendingDoc]
    /\ whitelist = [u \in Users |-> NoWhitelistDoc]
    /\ blacklist = {}

EmptyMemInit ==
    /\ userKeyCache = [u \in Users |-> NoEntry]
    /\ cooldowns = [u \in Users |-> NullTime]
    /\ activeOperations = << >>
    /\ backgroundRefreshQueue = {}
    /\ now = StartTime

NoGuardCall == [op |-> "none", userId |-> Null, operationType |-> Null,
                ret |-> FALSE, before |-> << >>, at |-> 0]

\* no handler runs and no call has been made
NoTasksInit ==
    /\ task = [t \in TaskIds |-> IdleFrame]
    /\ started = 0
    /\ guard = NoGuardCall
    /\ issued = <<>>

NoCodecInit == codec = [token |-> <<>>, checked |-> FALSE, result |-> FALSE]
\* what a call threw: nothing, or the error a rejected commit raised
NoError == [thrown |-> FALSE, name |-> "none", batch |-> 0, uncommitted |-> NullTime]
NoBatchInit == batchRun = [operations |-> <<>>, status |-> "unset", batches |-> <<>>,
                           created |-> 0, failing |-> {}, attempted |-> {},
                           committed |-> <<>>, ret |-> -1, error |-> NoError]

\* ==================== DOCUMENT STORE ====================
Range(s) == {s[i] : i \in 1..Len(s)}

\* the current store as one value
Store == [keys |-> keys, generated_keys |-> generated_keys,
          whitelist |-> whitelist, blacklist |-> blacklist]

\* documents of 'keys' that satisfy want(data), in document-name order,
\* as snapshot entries [id, data]
AllKeyDocs(st) == [i \in 1..Len(KeyOrder) |-> [id |-> KeyOrder[i], data |-> st.keys[KeyOrder[i]]]]

Limit(docs, n) == IF Len(docs) > n THEN SubSeq(docs, 1, n) ELSE docs

\* db.collection('keys').where('userId', '==', userId).get()
QueryByUserId(st, userId) ==
    LET Want(e) == e.data.exists /\ e.data.userId = userId
    IN SelectSeq(AllKeyDocs(st), Want)

\* db.collection('keys').where('usedByDiscord', '==', label).limit(5).get()
QueryByAlias(st, label) ==
    LET Want(e) == e.data.exists /\ e.data.usedByDiscord = label
    IN Limit(SelectSeq(AllKeyDocs(st), Want), ALIAS_LIMIT)

\* deferred write operations, as the batch receives them
OpSet(coll, id, data) == [type |-> "set", coll |-> coll, id |-> id, data |-> data]
OpUpdate(coll, id, updates) == [type |-> "update", coll |-> coll, id |-> id, data |-> updates]
OpDelete(coll, id) == [type |-> "delete", coll |-> coll, id |-> id, data |-> << >>]

\* batch.update(ref, updates): the named fields are overwritten
Merge(doc, updates) ==
    [f \in DOMAIN doc |-> IF f \in DOMAIN updates THEN updates[f] ELSE doc[f]]

DocExists(st, op) ==
    IF op.coll = "keys" THEN st.keys[op.id].exists
    ELSE IF op.coll = "generated_keys" THEN st.generated_keys[op.id].exists
    ELSE IF op.coll = "whitelist" THEN st.whitelist[op.id].exists
    ELSE op.id \in st.blacklist

ApplyOp(st, op) ==
    IF op.coll = "keys" THEN
        [st EXCEPT !.keys[op.id] =
            IF op.type = "set" THEN op.data
            ELSE IF op.type = "update" THEN Merge(@, op.data)
            ELSE NoKeyDoc]
    ELSE IF op.coll = "generated_keys" THEN
        [st EXCEPT !.generated_keys[op.id] =
            IF op.type = "set" THEN op.data
            ELSE IF op.type = "update" THEN Merge(@, op.data)
            ELSE NoPendingDoc]
    ELSE IF op.coll = "whitelist" THEN
        [st EXCEPT !.whitelist[op.id] =
            IF op.type = "set" THEN op.data
            ELSE IF op.type = "update" THEN Merge(@, op.data)
            ELSE NoWhitelistDoc]
    ELSE
        [st EXCEPT !.blacklist =
            IF op.type = "delete" THEN @ \ {op.id} ELSE @ \cup {op.id}]

\* WriteBatch.commit(): all writes or none; an update of a document that
\* does not exist rejects the whole batch.
RECURSIVE CommitFrom(_, _, _)
CommitFrom(st, batch, i) ==
    IF i > Len(batch) THEN [ok |-> TRUE, store |-> st]
    ELSE IF batch[i].type = "update" /\ ~DocExists(st, batch[i])
         THEN [ok |-> FALSE, store |-> st]
         ELSE CommitFrom(ApplyOp(st, batch[i]), batch, i + 1)

CommitBatch(st, batch) ==
    LET r == CommitFrom(st, batch, 1) IN
    IF r.ok THEN r ELSE [ok |-> FALSE, store |-> st]

\* await Promise.all(batches.map(b => b.commit())) of safeBatchCommit:
\* every batch is committed on its own; the call succeeds when all did.
RECURSIVE CommitAll(_, _, _, _)
CommitAll(st, batches, i, ok) ==
    IF i > Len(batches) THEN [ok |-> ok, store |-> st]
    ELSE LET r == CommitBatch(st, batches[i]) IN
         CommitAll(r.store, batches, i + 1, ok /\ r.ok)

safeBatchCommit(st, operations) ==
    CommitAll(st, safeBatchSplit(operations).batches, 1, TRUE)

SetStore(st) ==
    /\ keys' = st.keys
    /\ generated_keys' = st.generated_keys
    /\ whitelist' = st.whitelist
    /\ blacklist' = st.blacklist

\* ==================== EXPIRY ====================
\* isKeyExpired(keyData) evaluated when Date.now() = t
isKeyExpired(keyData, t) ==
    IF keyData.whitelisted THEN FALSE
    ELSE IF keyData.expiresAt = NullTime THEN FALSE
    ELSE keyData.expiresAt # 0 /\ keyData.expiresAt < t

\* ==================== IN-MEMORY STATE ====================
\* the process-wide maps and the frames of the running calls, as one value
\* (store: the documents as the running step sees them)
Mem == [task |-> task, cache |-> userKeyCache, cd |-> cooldowns,
        ao |-> activeOperations, bgq |-> backgroundRefreshQueue, store |-> Store]

SetMem(m) ==
    /\ task' = m.task
    /\ userKeyCache' = m.cache
    /\ cooldowns' = m.cd
    /\ activeOperations' = m.ao
    /\ backgroundRefreshQueue' = m.bgq

Done(m, t, outcome) ==
    [m EXCEPT !.task[t].pc = "done", !.task[t].outcome = outcome]

\* ==================== RATE LIMITER / SINGLE-FLIGHT GUARD ====================
\* `${userId}-${operationType}`
OperationKey(userId, operationType) == userId \o "-" \o operationType

\* a plausible slip: the remaining time is rounded down
checkCooldown_Floor(cd, userId, duration) ==
    LET userCooldown == cd[userId] IN
    IF userCooldown # NullTime /\ userCooldown # 0 /\ now < userCooldown
    THEN [onCooldown |-> TRUE, remaining |-> (userCooldown - now) \div 1000]
    ELSE [onCooldown |-> FALSE, remaining |-> 0]

\* checkCooldown(userId, duration = COOLDOWN_DURATION); Math.ceil of a
\* positive quotient by 1000 is (x + 999) \div 1000
checkCooldown(cd, userId, duration) ==
    LET userCooldown == cd[userId] IN
    IF userCooldown # NullTime /\ userCooldown # 0 /\ now < userCooldown
    THEN [onCooldown |-> TRUE, remaining |-> (userCooldown - now + 999) \div 1000]
    ELSE [onCooldown |-> FALSE, remaining |-> 0]

setCooldown(m, userId, duration) == [m EXCEPT !.cd[userId] = now + duration]

\* a plausible slip: the marker is refreshed on a rejected start
startOperation_Restamp(ao, userId, operationType) ==
    LET key == OperationKey(userId, operationType) IN
    IF key \in DOMAIN ao
    THEN [ok |-> FALSE, ao |-> [ao EXCEPT ![key] = now]]
    ELSE [ok |-> TRUE, ao |-> [k \in DOMAIN ao \cup {key} |-> IF k = key THEN now ELSE ao[k]]]

\* startOperation: test-and-set of the in-flight marker
startOperation(ao, userId, operationType) ==
    LET key == OperationKey(userId, operationType) IN
    IF key \in DOMAIN ao
    THEN [ok |-> FALSE, ao |-> ao]
    ELSE [ok |-> TRUE, ao |-> [k \in DOMAIN ao \cup {key} |-> IF k = key THEN now ELSE ao[k]]]

endOperation(ao, userId, operationType) ==
    LET key == OperationKey(userId, operationType) IN
    [k \in DOMAIN ao \ {key} |-> ao[k]]

\* ==================== RECONCILIATION ENGINE ====================
\* discordTag.includes('#') ? discordTag.split('#')[0] : discordTag
Username(discordTag) ==
    IF \E i \in 1..Len(discordTag) : discordTag[i] = "#"
    THEN LET first == CHOOSE i \in 1..Len(discordTag) :
                        /\ discordTag[i] = "#"
                        /\ \A j \in 1..(i - 1) : discordTag[j] # "#"
         IN SubSeq(discordTag, 1, first - 1)
    ELSE discordTag

\* Set.add: insertion order, no duplicates
SetAdd(ks, k) == IF k \in Range(ks) THEN ks ELSE Append(ks, k)

\* a plausible slip: whitelist-flagged records go through the expiry test
ClassifyOwned_ExpireWhitelisted(acc, doc, discordTag) ==
    IF ~isKeyExpired([doc.data EXCEPT !.whitelisted = FALSE], now)
    THEN [keySet |-> SetAdd(acc.keySet, doc.id), ops |-> acc.ops]
    ELSE acc

\* userIdSnapshot.forEach body (records found by the identity query)
ClassifyOwned(acc, doc, discordTag) ==
    IF ~doc.data.whitelisted /\ ~isKeyExpired(doc.data, now)
    THEN [keySet |-> SetAdd(acc.keySet, doc.id),
          ops |-> IF doc.data.usedByDiscord = NoTag
                  THEN Append(acc.ops, OpUpdate("keys", doc.id, [usedByDiscord |-> discordTag]))
                  ELSE acc.ops]
    ELSE IF doc.data.whitelisted \/ doc.data.expiresAt = NullTime
    THEN [keySet |-> SetAdd(acc.keySet, doc.id), ops |-> acc.ops]
    ELSE acc

RECURSIVE ForEachOwned(_, _, _, _)
ForEachOwned(docs, i, acc, discordTag) ==
    IF i > Len(docs) THEN acc
    ELSE ForEachOwned(docs, i + 1, ClassifyOwned(acc, docs[i], discordTag), discordTag)

\* a plausible slip: the fallback records are not bound to the identity
ClassifyAlias_NoMigrate(acc, doc, userId) ==
    IF doc.id \in Range(acc.keySet) THEN acc
    ELSE IF ~isKeyExpired(doc.data, now)
    THEN [keySet |-> SetAdd(acc.keySet, doc.id), ops |-> acc.ops]
    ELSE acc

\* snapshot.forEach body of the alias fallback
ClassifyAlias(acc, doc, userId) ==
    IF doc.id \in Range(acc.keySet) THEN acc
    ELSE IF ~isKeyExpired(doc.data, now)
    THEN [keySet |-> SetAdd(acc.keySet, doc.id),
          ops |-> IF doc.data.userId = Null
                  THEN Append(acc.ops, OpUpdate("keys", doc.id, [userId |-> userId]))
                  ELSE acc.ops]
    ELSE acc

RECURSIVE ForEachAlias(_, _, _, _)
ForEachAlias(docs, i, acc, userId) ==
    IF i > Len(docs) THEN acc
    ELSE ForEachAlias(docs, i + 1, ClassifyAlias(acc, docs[i], userId), userId)

\* the record every handler writes for a whitelist key
WhitelistKeyRecord(userId, discordTag) ==
    [exists |-> TRUE, userId |-> userId, usedByDiscord |-> discordTag,
     whitelisted |-> TRUE, expiresAt |-> NullTime, hwid |-> "", hwidLimit |-> 1]

\* a plausible slip: a missing whitelist key is put in the result but never created
WhitelistRepairOp_NoCreate(key, keyDoc, userId, discordTag) == <<>>

\* the self-heal operation for the whitelist key, from its keys/<key> snapshot
WhitelistRepairOp(key, keyDoc, userId, discordTag) ==
    IF ~keyDoc.exists
    THEN <<OpSet("keys", key, WhitelistKeyRecord(userId, discordTag))>>
    ELSE LET updates ==
               (IF keyDoc.userId = Null THEN [userId |-> userId] ELSE << >>)
               @@ (IF keyDoc.usedByDiscord = NoTag THEN [usedByDiscord |-> discordTag] ELSE << >>)
               @@ (IF ~keyDoc.whitelisted THEN [whitelisted |-> TRUE] ELSE << >>)
         IN IF DOMAIN updates # {} THEN <<OpUpdate("keys", key, updates)>> ELSE <<>>

\* refreshUserKeys(userId, discordTag, isBackground) up to its first await:
\* the identity query and the whitelist lookup are issued together
RefreshEnter(m, t, isBackground, ret) ==
    [m EXCEPT !.task[t] =
        [@ EXCEPT !.pc = "rf_query", !.isBackground = isBackground, !.ret = ret,
                  !.pendingReads = {"userId", "whitelist"},
                  !.userIdSnapshot = <<>>, !.whitelistDoc = NoWhitelistDoc,
                  !.tagSnapshot = <<>>, !.usernameSnapshot = <<>>,
                  !.keyDoc = NoKeyDoc, !.keySet = <<>>, !.updateOperations = <<>>,
                  !.startTime = now, !.rfStatus = "running",
                  !.cacheAtEntry = m.cache[m.task[t].userId],
                  !.queries = @ + 2, !.trips = @ + 1, !.refreshes = @ + 1]]

\* ---- continuations of the callers, entered when a refresh settles ----
\* a plausible slip: the keys of the blacklisted identity are left in place
DeleteKeyOps_None(ks) == <<>>

\* for (const key of userKeys) operations.push(batch.delete(keys/<key>))
DeleteKeyOps(ks) == [i \in 1..Len(ks) |-> OpDelete("keys", ks[i])]

\* a plausible slip: every refused redemption starts the cooldown
RedeemExit_Cooldown(m, t, outcome) ==
    LET f == m.task[t]
        m1 == setCooldown(m, f.userId, COOLDOWN_DURATION)
    IN [Done(m1, t, outcome) EXCEPT !.ao = endOperation(m1.ao, f.userId, "redeem"),
                                    !.task[t].marker = FALSE]

\* finally { endOperation(userId, 'redeem') } and the end of the handler
RedeemExit(m, t, outcome) ==
    LET f == m.task[t] IN
    [Done(m, t, outcome) EXCEPT !.ao = endOperation(m.ao, f.userId, "redeem"),
                               !.task[t].marker = FALSE]

\* the buttons whose handlers run under the single-flight guard
GuardedButtons == {"getrole", "getscript", "reset"}

\* a plausible slip: endOperation closes the try block, so that only the
\* path that runs to the end of the block reaches it
HandlerExit_SuccessOnly(m, t, outcome) ==
    LET f == m.task[t] IN
    IF outcome = "success"
    THEN [Done(m, t, outcome) EXCEPT !.ao = endOperation(m.ao, f.userId, f.op),
                                    !.task[t].marker = FALSE]
    ELSE Done(m, t, outcome)

\* finally { endOperation(userId, <operation>) } and the end of the handler
HandlerExit(m, t, outcome) ==
    LET f == m.task[t] IN
    [Done(m, t, outcome) EXCEPT !.ao = endOperation(m.ao, f.userId, f.op),
                               !.task[t].marker = FALSE]

\* getrole_start, getscript_start, reset_start after
\* await getUserActiveKeys(userId, discordTag, true)
ButtonKeysReturned(m, t, ok) ==
    LET f == m.task[t] IN
    IF ~ok THEN HandlerExit(m, t, "error")
    ELSE IF f.result = <<>> THEN HandlerExit(m, t, "no_keys")
    ELSE IF f.op = "getrole"
    THEN [m EXCEPT !.task[t].userKeys = f.result, !.task[t].pc = "h_member",
                   !.task[t].trips = @ + 1]
    ELSE IF Len(f.result) > 1 THEN HandlerExit([m EXCEPT !.task[t].userKeys = f.result],
                                               t, "choose")
    ELSE IF f.op = "getscript"
    THEN [m EXCEPT !.task[t].userKeys = f.result, !.task[t].pc = "h_log"]
    ELSE [m EXCEPT !.task[t].userKeys = f.result, !.task[t].pc = "h_update",
                   !.task[t].trips = @ + 1]

\* ---- /whitelist, /removekey, /sethwidlimit, /syncvip ----
\* generateKey() inside a handler: the identifier is one that no document
\* and no running handler uses
UnusedKey(m) ==
    CHOOSE k \in KeyIds :
        /\ ~m.store.keys[k].exists /\ ~m.store.generated_keys[k].exists
        /\ \A u \in Users : m.store.whitelist[u].key # k
        /\ \A s \in TaskIds : \A i \in 1..Len(m.task[s].operations) :
               m.task[s].operations[i].coll \in {"keys", "generated_keys"}
                   => m.task[s].operations[i].id # k

\* the whitelist document written by /whitelist add and /syncvip
WhitelistGrant(discordTag, key) == [exists |-> TRUE, key |-> key, discordTag |-> discordTag]

\* the two writes of /whitelist add and of the auto-whitelist of /syncvip
GrantOps(userId, discordTag, newKey) ==
    <<OpSet("keys", newKey, WhitelistKeyRecord(userId, discordTag)),
      OpSet("whitelist", userId, WhitelistGrant(discordTag, newKey))>>

\* for (const key of userKeys) operations.push(batch.update(keys/<key>, { hwidLimit }))
HwidLimitOps(ks, newLimit) ==
    [i \in 1..Len(ks) |-> OpUpdate("keys", ks[i], [hwidLimit |-> newLimit])]

\* for (const [memberId, member] of premiumMembers): the next member's
\* getUserActiveKeys(memberId, discordTag, true), or the reply after the last
SyncVipLoop(m, t) ==
    LET f == m.task[t] IN
    IF f.members = <<>> THEN Done(m, t, "success")
    ELSE LET memberId == Head(f.members) IN
         RefreshEnter([m EXCEPT !.task[t].userId = memberId,
                                !.task[t].tag = TagOf(memberId),
                                !.task[t].members = Tail(f.members)],
                      t, FALSE, "get")

\* the commands that call getUserActiveKeys(target, tag, true) first
KeyCommands == {"removekey", "sethwidlimit", "syncvip"}

\* /removekey, /sethwidlimit and the loop body of /syncvip after
\* await getUserActiveKeys(..., true)
CommandKeysReturned(m, t, ok) ==
    LET f == m.task[t] IN
    IF ~ok THEN Done(m, t, "error")
    ELSE IF f.op = "syncvip"
    THEN IF Len(f.result) > 0 THEN SyncVipLoop(m, t)
         ELSE [m EXCEPT !.task[t].operations = GrantOps(f.userId, f.tag, UnusedKey(m)),
                        !.task[t].pc = "ad_commit", !.task[t].trips = @ + 1]
    ELSE IF Len(f.result) = 0 THEN Done(m, t, "no_keys")
    ELSE IF f.op = "removekey"
    THEN [m EXCEPT !.task[t].userKeys = f.result,
                   !.task[t].operations = DeleteKeyOps(f.result),
                   !.task[t].pc = "rk_whitelist",
                   !.task[t].queries = @ + 1, !.task[t].trips = @ + 1]
    ELSE [m EXCEPT !.task[t].userKeys = f.result,
                   !.task[t].operations = HwidLimitOps(f.result, f.newLimit),
                   !.task[t].pc = "ad_commit", !.task[t].trips = @ + 1]

\* the caller of getUserActiveKeys resumes with task[t].result (ok) or
\* with the error it threw (~ok)
GetReturn(m, t, ok) ==
    LET f == m.task[t] IN
    IF f.op = "blacklistAdd" THEN
        IF ok
        THEN [m EXCEPT !.task[t].userKeys = f.result,
                       !.task[t].operations = f.operations \o DeleteKeyOps(f.result),
                       !.task[t].pc = "bl_commit"]
        ELSE Done(m, t, "error")
    ELSE IF f.op \in GuardedButtons THEN ButtonKeysReturned(m, t, ok)
    ELSE IF f.op \in KeyCommands THEN CommandKeysReturned(m, t, ok)
    ELSE \* a direct call of getUserActiveKeys
        [Done(m, t, IF ok THEN "returned" ELSE "thrown") EXCEPT
            !.task[t].cacheAtReturn = m.cache[f.userId],
            !.task[t].storeAtReturn = m.store]

\* the caller of invalidateUserCache resumes; a failed refresh was logged
InvalidateReturn(m, t) ==
    LET f == m.task[t] IN
    IF f.op = "redeem"
    THEN RedeemExit(setCooldown(m, f.userId, COOLDOWN_DURATION), t, "success")
    \* /syncvip: logAction and the 100 ms pause are awaited
    ELSE IF f.op = "syncvip" THEN [m EXCEPT !.task[t].pc = "sv_pause"]
    ELSE Done(m, t, "success")

\* a plausible slip: the queue is released after the await, not in finally
BackgroundReturn_NoFinally(m, t, ok) ==
    [Done(m, t, IF ok THEN "returned" ELSE "swallowed") EXCEPT
        !.bgq = IF ok THEN @ \ {m.task[t].userId} ELSE @]

\* refreshUserKeysBackground: catch, finally { backgroundRefreshQueue.delete }
BackgroundReturn(m, t, ok) ==
    [Done(m, t, IF ok THEN "returned" ELSE "swallowed") EXCEPT
        !.bgq = @ \ {m.task[t].userId}]

RefreshReturn(m, t, ok) ==
    LET ret == m.task[t].ret IN
    IF ret = "get" THEN GetReturn(m, t, ok)
    ELSE IF ret = "invalidate" THEN InvalidateReturn(m, t)
    ELSE BackgroundReturn(m, t, ok)

\* a plausible slip: the cache entry is stamped without the lifetime
CacheEntry_NoLifetime(ks) == [present |-> TRUE, keys |-> ks, expires |-> now, lastRefresh |-> now]

\* a plausible slip: the grace period of the cleanup is added at the write
CacheEntry_WithGrace(ks) ==
    [present |-> TRUE, keys |-> ks, expires |-> now + CACHE_DURATION * 2, lastRefresh |-> now]

\* { keys: result, expires: Date.now() + CACHE_DURATION, lastRefresh: Date.now() }
\* the two clock reads of the one statement fall into the same instant,
\* as all reads of a synchronous run do in this model
CacheEntry(ks) ==
    [present |-> TRUE, keys |-> ks, expires |-> now + CACHE_DURATION, lastRefresh |-> now]

\* a plausible slip: an entry written while the refresh ran is kept
RefreshFinish_KeepNewer(m, t) ==
    LET f == m.task[t]
        kept == m.cache[f.userId].present /\ m.cache[f.userId] # f.cacheAtEntry
        m1 == [m EXCEPT !.cache[f.userId] = IF kept THEN @ ELSE CacheEntry(f.keySet),
                        !.task[t].result = f.keySet,
                        !.task[t].rfStatus = "ok"]
    IN RefreshReturn(m1, t, TRUE)

\* result = Array.from(keys); userKeyCache.set(...); return result
RefreshFinish(m, t) ==
    LET f == m.task[t]
        m1 == [m EXCEPT !.cache[f.userId] = CacheEntry(f.keySet),
                        !.task[t].result = f.keySet,
                        !.task[t].rfStatus = "ok"]
    IN RefreshReturn(m1, t, TRUE)

\* a plausible slip: the failing refresh drops the entry it could not renew
RefreshThrow_DropsEntry(m, t) ==
    RefreshReturn([m EXCEPT !.task[t].rfStatus = "failed",
                            !.cache[m.task[t].userId] = NoEntry], t, FALSE)

\* catch (error) { throw error }
RefreshThrow(m, t) == RefreshReturn([m EXCEPT !.task[t].rfStatus = "failed"], t, FALSE)

\* if (updateOperations.length > 0) await safeBatchCommit(updateOperations)
CommitStage(m, t) ==
    IF m.task[t].updateOperations # <<>>
    THEN [m EXCEPT !.task[t].pc = "rf_commit", !.task[t].trips = @ + 1]
    ELSE RefreshFinish(m, t)

\* "Process whitelist" up to the await of the keys/<key> lookup
WhitelistStage(m, t) ==
    LET f == m.task[t]
        wl == f.whitelistDoc
    IN IF wl.exists /\ wl.key # <<>> /\ wl.key \notin Range(f.keySet)
       THEN [m EXCEPT !.task[t].keySet = Append(f.keySet, wl.key),
                      !.task[t].pc = "rf_keydoc",
                      !.task[t].queries = @ + 1, !.task[t].trips = @ + 1]
       ELSE CommitStage(m, t)

\* the two alias snapshots are processed, tag first
AfterAlias(m, t) ==
    LET f == m.task[t]
        acc0 == [keySet |-> f.keySet, ops |-> f.updateOperations]
        acc1 == ForEachAlias(f.tagSnapshot, 1, acc0, f.userId)
        acc2 == ForEachAlias(f.usernameSnapshot, 1, acc1, f.userId)
    IN WhitelistStage([m EXCEPT !.task[t].keySet = acc2.keySet,
                                !.task[t].updateOperations = acc2.ops], t)

\* a plausible slip: the alias fallback is skipped
AliasNeeded_Never(f, keySet) == FALSE

\* a plausible slip: a background refresh falls back to the alias queries too
AliasNeeded_Background(f, keySet) == keySet = <<>>

\* if (keys.size === 0 && !isBackground)
AliasNeeded(f, keySet) == keySet = <<>> /\ ~f.isBackground

\* both first reads have resolved: classify the identity records, then
\* either issue the alias queries or go on to the whitelist
AfterQuery(m, t) ==
    LET f == m.task[t]
        acc == ForEachOwned(f.userIdSnapshot, 1, [keySet |-> <<>>, ops |-> <<>>], f.tag)
        m1 == [m EXCEPT !.task[t].keySet = acc.keySet,
                        !.task[t].updateOperations = acc.ops,
                        !.task[t].classifiedAt = now]
    IN IF AliasNeeded(f, acc.keySet)
       THEN [m1 EXCEPT !.task[t].pc = "rf_alias",
                       !.task[t].pendingReads = {"tag", "username"},
                       !.task[t].queries = @ + 2, !.task[t].trips = @ + 1]
       ELSE WhitelistStage(m1, t)

\* ---- refreshUserKeys: one action per store call it awaits ----
Running(t, pc) == task[t].pc = pc

\* one of the two reads of the first Promise.all is served by the store
RefreshQuery(t, which) ==
    /\ Running(t, "rf_query")
    /\ which \in task[t].pendingReads
    /\ LET f == task[t]
           m1 == [Mem EXCEPT
                    !.task[t].pendingReads = @ \ {which},
                    !.task[t].userIdSnapshot =
                        IF which = "userId" THEN QueryByUserId(Store, f.userId) ELSE @,
                    !.task[t].whitelistDoc =
                        IF which = "whitelist" THEN whitelist[f.userId] ELSE @]
       IN SetMem(IF f.pendingReads = {which} THEN AfterQuery(m1, t) ELSE m1)
    /\ UNCHANGED <<storeVars, now, started, obsVars>>

\* one of the two alias queries is served by the store
RefreshAliasQuery(t, which) ==
    /\ Running(t, "rf_alias")
    /\ which \in task[t].pendingReads
    /\ LET f == task[t]
           m1 == [Mem EXCEPT
                    !.task[t].pendingReads = @ \ {which},
                    !.task[t].tagSnapshot =
                        IF which = "tag" THEN QueryByAlias(Store, f.tag) ELSE @,
                    !.task[t].usernameSnapshot =
                        IF which = "username" THEN QueryByAlias(Store, Username(f.tag)) ELSE @]
       IN SetMem(IF f.pendingReads = {which} THEN AfterAlias(m1, t) ELSE m1)
    /\ UNCHANGED <<storeVars, now, started, obsVars>>

\* await db.collection('keys').doc(whitelistData.key).get()
RefreshKeyDoc(t) ==
    /\ Running(t, "rf_keydoc")
    /\ LET f == task[t]
           keyDoc == keys[f.whitelistDoc.key]
           m1 == [Mem EXCEPT
                    !.task[t].keyDoc = keyDoc,
                    !.task[t].updateOperations =
                        @ \o WhitelistRepairOp(f.whitelistDoc.key, keyDoc, f.userId, f.tag)]
       IN SetMem(CommitStage(m1, t))
    /\ UNCHANGED <<storeVars, now, started, obsVars>>

\* await safeBatchCommit(updateOperations)
RefreshCommit(t) ==
    /\ Running(t, "rf_commit")
    /\ LET r == safeBatchCommit(Store, task[t].updateOperations) IN
       /\ SetStore(r.store)
       /\ SetMem(LET m1 == [Mem EXCEPT !.store = r.store] IN
                 IF r.ok THEN RefreshFinish(m1, t) ELSE RefreshThrow(m1, t))
    /\ UNCHANGED <<now, started, obsVars>>

\* the store call that the refresh of frame t awaits rejects (one read of a
\* Promise.all, the keys/<key> lookup, or the commit of the single batch,
\* which then writes nothing): catch (error) { throw error }
RefreshStoreError(t) ==
    /\ task[t].pc \in {"rf_query", "rf_alias", "rf_keydoc", "rf_commit"}
    /\ SetMem(RefreshThrow(Mem, t))
    /\ UNCHANGED <<storeVars, now, started, obsVars>>

\* ==================== KEY CACHE ====================
\* a frame is free when no call runs in it (a finished call's frame is reused)
FreeSlots(m, t) == {s \in TaskIds \ {t} : m.task[s].pc \in {"idle", "done"}}

\* the frame a call started without await runs in
LowestFree(m, t) == CHOOSE s \in FreeSlots(m, t) : \A s2 \in FreeSlots(m, t) : s <= s2

\* a plausible slip: the queue is not consulted
refreshUserKeysBackground_NoQueueCheck(m, s, userId, discordTag) ==
    RefreshEnter([m EXCEPT !.bgq = @ \cup {userId},
                           !.task[s] = [IdleFrame EXCEPT !.op = "bg",
                                                         !.userId = userId,
                                                         !.tag = discordTag]],
                 s, TRUE, "bg")

\* refreshUserKeysBackground(userId, discordTag), started without await:
\* runs in slot s up to the first await of its refresh
refreshUserKeysBackground(m, s, userId, discordTag) ==
    IF userId \in m.bgq THEN m
    ELSE RefreshEnter([m EXCEPT !.bgq = @ \cup {userId},
                                !.task[s] = [IdleFrame EXCEPT !.op = "bg",
                                                              !.userId = userId,
                                                              !.tag = discordTag]],
                      s, TRUE, "bg")

\* a plausible slip: the soft refresh is already due at the threshold itself
SoftRefreshDue_AtThreshold(cached) ==
    cached.lastRefresh # 0 /\ (now - cached.lastRefresh) >= CACHE_SOFT_REFRESH

\* cached.lastRefresh && (now - cached.lastRefresh) > CACHE_SOFT_REFRESH
SoftRefreshDue(cached) ==
    cached.lastRefresh # 0 /\ (now - cached.lastRefresh) > CACHE_SOFT_REFRESH

\* a plausible slip: an entry is still served at the instant it expires
CacheUsable_AtExpiry(cached) == cached.present /\ cached.expires >= now

\* cached && cached.expires > now
CacheUsable(cached) == cached.present /\ cached.expires > now

\* does this call of getUserActiveKeys start a background refresh?
SpawnsBackground(m, userId, forceRefresh) ==
    /\ ~forceRefresh
    /\ CacheUsable(m.cache[userId])
    /\ SoftRefreshDue(m.cache[userId])
    /\ userId \notin m.bgq

\* getUserActiveKeys(userId, discordTag, forceRefresh) for the caller in
\* frame t, up to its first await or to its return
getUserActiveKeys(m, t, forceRefresh) ==
    LET f == m.task[t]
        cached == m.cache[f.userId]
    IN IF forceRefresh THEN RefreshEnter(m, t, FALSE, "get")
       ELSE IF CacheUsable(cached)
       THEN LET m1 == IF SoftRefreshDue(cached)
                      THEN refreshUserKeysBackground(m, LowestFree(m, t), f.userId, f.tag)
                      ELSE m
            IN GetReturn([m1 EXCEPT !.task[t].result = cached.keys], t, TRUE)
       ELSE RefreshEnter(m, t, FALSE, "get")

\* a plausible slip: the entry is not removed before the refresh
invalidateUserCache_NoDelete(m, t) == RefreshEnter(m, t, FALSE, "invalidate")

\* invalidateUserCache(userId, discordTag) up to the await of its refresh
invalidateUserCache(m, t) ==
    RefreshEnter([m EXCEPT !.cache[m.task[t].userId] = NoEntry], t, FALSE, "invalidate")

\* ==================== CALLS AND HANDLERS ====================
\* a new call takes the lowest free frame
CanStart(t) ==
    /\ task[t].pc \in {"idle", "done"}
    /\ \A s \in TaskIds : s < t => task[s].pc \notin {"idle", "done"}

NewFrame(op, userId) ==
    [IdleFrame EXCEPT !.op = op, !.userId = userId, !.tag = TagOf(userId), !.calledAt = now]

\* a caller of the exposed getUserActiveKeys(userId, tag, forceRefresh)
Lookup(t, userId, forceRefresh) ==
    /\ CanStart(t)
    /\ LET last == task[t]
           prior == IF last.op = "lookup" /\ last.outcome = "returned" /\ last.userId = userId
                    THEN [returned |-> TRUE, force |-> last.force,
                          refreshes |-> last.refreshes, result |-> last.result,
                          calledAt |-> last.calledAt]
                    ELSE NoPrior
           m0 == [Mem EXCEPT !.task[t] = [NewFrame("lookup", userId) EXCEPT
                                             !.force = forceRefresh, !.prior = prior]]
       IN /\ SpawnsBackground(m0, userId, forceRefresh) => FreeSlots(m0, t) # {}
          /\ SetMem(getUserActiveKeys(m0, t, forceRefresh))
    /\ started' = started + 1
    /\ UNCHANGED <<storeVars, now, obsVars>>

\* ---- redeem_submit ----
UpperOf(c) ==
    IF c = "a" THEN "A" ELSE IF c = "b" THEN "B" ELSE IF c = "c" THEN "C"
    ELSE IF c = "d" THEN "D" ELSE IF c = "e" THEN "E" ELSE IF c = "f" THEN "F"
    ELSE IF c = "v" THEN "V" ELSE IF c = "o" THEN "O" ELSE IF c = "r" THEN "R"
    ELSE IF c = "h" THEN "H" ELSE IF c = "u" THEN "U" ELSE c

toUpperCase(str) == [i \in 1..Len(str) |-> UpperOf(str[i])]

RECURSIVE trimStart(_)
trimStart(str) == IF str # <<>> /\ Head(str) = " " THEN trimStart(Tail(str)) ELSE str

RECURSIVE trimEnd(_)
trimEnd(str) ==
    IF str # <<>> /\ str[Len(str)] = " " THEN trimEnd(SubSeq(str, 1, Len(str) - 1)) ELSE str

trim(str) == trimEnd(trimStart(str))

\* a plausible slip: the days are added as if they were milliseconds
RedeemedKeyRecord_DaysAsMs(userId, discordTag, pendingData) ==
    [exists |-> TRUE, userId |-> userId, usedByDiscord |-> discordTag,
     whitelisted |-> FALSE,
     expiresAt |-> IF pendingData.expiresInDays = NullTime THEN NullTime
                   ELSE now + pendingData.expiresInDays,
     hwid |-> "", hwidLimit |-> 1]

\* the record a redemption creates; expiresInDays == null means permanent
RedeemedKeyRecord(userId, discordTag, pendingData) ==
    [exists |-> TRUE, userId |-> userId, usedByDiscord |-> discordTag,
     whitelisted |-> FALSE,
     expiresAt |-> IF pendingData.expiresInDays = NullTime THEN NullTime
                   ELSE now + pendingData.expiresInDays * DAY_MS,
     hwid |-> "", hwidLimit |-> 1]

\* the successful redeem_submit interactions of an identity that the
\* frames record: their place among the calls and their arrival time
Redeemed(userId) ==
    UNION {task[s].earlier \cup
             (IF task[s].pc = "done" /\ task[s].outcome = "success"
              THEN {[seq |-> task[s].seq, at |-> task[s].calledAt]} ELSE {}) :
           s \in {r \in TaskIds : task[r].op = "redeem" /\ task[r].userId = userId}}

\* the interaction arrives: cooldown check, startOperation, deferReply and
\* the blacklist lookup is awaited
RedeemSubmit(t, userId, keyInput) ==
    /\ CanStart(t)
    /\ LET f == [NewFrame("redeem", userId) EXCEPT !.inputKey = keyInput,
                                                  !.seq = started + 1,
                                                  !.earlier = Redeemed(userId)]
           m0 == [Mem EXCEPT !.task[t] = f]
           started_op == startOperation(m0.ao, userId, "redeem")
       IN SetMem(IF checkCooldown(m0.cd, userId, COOLDOWN_DURATION).onCooldown THEN Done(m0, t, "cooldown")
                 ELSE IF ~started_op.ok THEN Done(m0, t, "in_progress")
                 ELSE [m0 EXCEPT !.ao = started_op.ao,
                                 !.task[t].marker = TRUE,
                                 !.task[t].pc = "rd_blacklist",
                                 !.task[t].queries = @ + 1, !.task[t].trips = @ + 1])
    /\ started' = started + 1
    /\ UNCHANGED <<storeVars, now, obsVars>>

\* blacklist lookup served; the key text is normalised and validated and
\* the keys/<key> lookup is awaited
RedeemBlacklistChecked(t) ==
    /\ Running(t, "rd_blacklist")
    /\ LET f == task[t]
           inputKey == toUpperCase(trim(f.inputKey))
       IN SetMem(IF f.userId \in blacklist THEN RedeemExit(Mem, t, "blacklisted")
                 ELSE IF ~isValidKeyFormat(inputKey) THEN RedeemExit(Mem, t, "bad_format")
                 ELSE [Mem EXCEPT !.task[t].inputKey = inputKey,
                                  !.task[t].pc = "rd_active",
                                  !.task[t].queries = @ + 1, !.task[t].trips = @ + 1])
    /\ UNCHANGED <<storeVars, now, started, obsVars>>

\* ${activeData.usedByDiscord || activeData.userId || "Unknown"}: the
\* first of the label and the raw identity that is set and not empty
HolderShown(activeData) ==
    IF activeData.usedByDiscord # NoTag
    THEN [from |-> "usedByDiscord", label |-> activeData.usedByDiscord, userId |-> Null]
    ELSE IF activeData.userId # Null
    THEN [from |-> "userId", label |-> NoTag, userId |-> activeData.userId]
    ELSE [from |-> "Unknown", label |-> NoTag, userId |-> Null]

\* keys/<key> lookup served ("Check if key already used")
RedeemActiveChecked(t) ==
    /\ Running(t, "rd_active")
    /\ LET f == task[t] IN
       SetMem(IF keys[f.inputKey].exists
              THEN RedeemExit([Mem EXCEPT !.task[t].keyDoc = keys[f.inputKey],
                                          !.task[t].shown = HolderShown(keys[f.inputKey])],
                              t, "already_used")
              ELSE [Mem EXCEPT !.task[t].pc = "rd_pending",
                               !.task[t].queries = @ + 1, !.task[t].trips = @ + 1])
    /\ UNCHANGED <<storeVars, now, started, obsVars>>

\* generated_keys/<key> lookup served; the two-operation batch is built
RedeemPendingChecked(t) ==
    /\ Running(t, "rd_pending")
    /\ LET f == task[t]
           pendingDoc == generated_keys[f.inputKey]
       IN SetMem(IF ~pendingDoc.exists THEN RedeemExit(Mem, t, "not_found")
                 ELSE [Mem EXCEPT
                         !.task[t].operations =
                             <<OpSet("keys", f.inputKey,
                                     RedeemedKeyRecord(f.userId, f.tag, pendingDoc)),
                               OpDelete("generated_keys", f.inputKey)>>,
                         !.task[t].pc = "rd_commit", !.task[t].trips = @ + 1])
    /\ UNCHANGED <<storeVars, now, started, obsVars>>

\* await safeBatchCommit(operations); then logAction and the role grant
\* are awaited
RedeemCommit(t) ==
    /\ Running(t, "rd_commit")
    /\ LET r == safeBatchCommit(Store, task[t].operations) IN
       /\ SetStore(r.store)
       /\ SetMem(IF r.ok THEN [Mem EXCEPT !.task[t].pc = "rd_notify"]
                 ELSE RedeemExit(Mem, t, "error"))
    /\ UNCHANGED <<now, started, obsVars>>

\* logging and role grant are over: invalidateUserCache is entered
RedeemNotified(t) ==
    /\ Running(t, "rd_notify")
    /\ SetMem(invalidateUserCache(Mem, t))
    /\ UNCHANGED <<storeVars, now, started, obsVars>>

\* a call that redeem_submit awaits rejects (deferReply or a store read,
\* or the commit, which then writes nothing): finally { endOperation }
RedeemCallRejects(t) ==
    /\ task[t].pc \in {"rd_blacklist", "rd_active", "rd_pending", "rd_commit"}
    /\ SetMem(RedeemExit(Mem, t, "error"))
    /\ UNCHANGED <<storeVars, now, started, obsVars>>

\* ---- getrole_start, getscript_start, reset_start ----
\* the button is pressed: cooldown check, startOperation, and deferReply
\* is awaited
ButtonPressed(t, userId, kind) ==
    /\ CanStart(t)
    /\ LET m0 == [Mem EXCEPT !.task[t] = NewFrame(kind, userId)]
           started_op == startOperation(m0.ao, userId, kind)
       IN SetMem(IF checkCooldown(m0.cd, userId, COOLDOWN_DURATION).onCooldown THEN Done(m0, t, "cooldown")
                 ELSE IF ~started_op.ok THEN Done(m0, t, "in_progress")
                 ELSE [m0 EXCEPT !.ao = started_op.ao,
                                 !.task[t].marker = TRUE,
                                 !.task[t].pc = "h_defer",
                                 !.task[t].trips = @ + 1])
    /\ started' = started + 1
    /\ UNCHANGED <<storeVars, now, obsVars>>

\* deferReply is over; getrole answers at once outside a server, otherwise
\* getUserActiveKeys(userId, discordTag, true) is entered
ButtonDeferred(t, inGuild) ==
    /\ Running(t, "h_defer")
    /\ SetMem(IF task[t].op = "getrole" /\ ~inGuild THEN HandlerExit(Mem, t, "no_guild")
              ELSE getUserActiveKeys(Mem, t, TRUE))
    /\ UNCHANGED <<storeVars, now, started, obsVars>>

\* getrole: guild.members.fetch(userId).catch(() => null) is over
GetRoleMemberFetched(t, found, hasRole) ==
    /\ Running(t, "h_member")
    /\ SetMem(IF ~found THEN HandlerExit(Mem, t, "no_member")
              ELSE IF hasRole THEN HandlerExit(Mem, t, "has_role")
              ELSE [Mem EXCEPT !.task[t].pc = "h_role", !.task[t].trips = @ + 1])
    /\ UNCHANGED <<storeVars, now, started, obsVars>>

\* getrole: member.roles.add is over; logAction is awaited
GetRoleAdded(t) ==
    /\ Running(t, "h_role")
    /\ SetMem([Mem EXCEPT !.task[t].pc = "h_log"])
    /\ UNCHANGED <<storeVars, now, started, obsVars>>

\* reset: keys/<key>.update({ hwid: "", used: false }) is served; the
\* update of a record that is gone rejects
ResetUpdated(t) ==
    /\ Running(t, "h_update")
    /\ LET key == task[t].userKeys[1] IN
       IF keys[key].exists
       THEN /\ keys' = [keys EXCEPT ![key] = Merge(@, [hwid |-> ""])]
            /\ SetMem([Mem EXCEPT !.task[t].pc = "h_log"])
       ELSE /\ keys' = keys
            /\ SetMem(HandlerExit(Mem, t, "error"))
    /\ UNCHANGED <<generated_keys, whitelist, blacklist, now, started, obsVars>>

\* logAction is over (it swallows its own errors): setCooldown, the reply
ButtonLogged(t) ==
    /\ Running(t, "h_log")
    /\ SetMem(HandlerExit(setCooldown(Mem, task[t].userId, COOLDOWN_DURATION), t, "success"))
    /\ UNCHANGED <<storeVars, now, started, obsVars>>

\* deferReply, member.roles.add or the record update rejects
ButtonCallRejects(t) ==
    /\ task[t].pc \in {"h_defer", "h_role", "h_update"}
    /\ SetMem(HandlerExit(Mem, t, "error"))
    /\ UNCHANGED <<storeVars, now, started, obsVars>>

ButtonNext(t) ==
    \/ \E inGuild \in BOOLEAN : ButtonDeferred(t, inGuild)
    \/ \E found, hasRole \in BOOLEAN : GetRoleMemberFetched(t, found, hasRole)
    \/ GetRoleAdded(t)
    \/ ResetUpdated(t)
    \/ ButtonLogged(t)

\* ---- /genkey ----
\* generateKey(): 72 random bits; the model draws an identifier that no
\* document and no running handler uses
FreshKeys ==
    {k \in KeyIds :
        /\ ~keys[k].exists /\ ~generated_keys[k].exists
        /\ \A u \in Users : whitelist[u].key # k
        /\ \A t \in TaskIds : \A i \in 1..Len(task[t].operations) :
               task[t].operations[i].coll \in {"keys", "generated_keys"}
                   => task[t].operations[i].id # k}

PendingRecord(days) == [exists |-> TRUE, expiresInDays |-> days]

\* /genkey amount:1 -- deferReply, one key generated, the batch is awaited
GenKey(t, key) ==
    /\ CanStart(t)
    /\ key \in FreshKeys
    /\ SetMem([Mem EXCEPT !.task[t] =
                 [NewFrame("genkey", "101") EXCEPT
                     !.tag = AdminTag,
                     !.result = <<key>>,
                     !.operations = <<OpSet("generated_keys", key, PendingRecord(NullTime))>>,
                     !.pc = "gk_commit", !.trips = 1]])
    /\ started' = started + 1
    /\ UNCHANGED <<storeVars, now, obsVars>>

\* the batch is committed; the keys are sent to the channel
GenKeyCommit(t) ==
    /\ Running(t, "gk_commit")
    /\ LET r == safeBatchCommit(Store, task[t].operations) IN
       /\ SetStore(r.store)
       /\ SetMem(Done(Mem, t, IF r.ok THEN "success" ELSE "error"))
       /\ issued' = IF r.ok THEN issued \o task[t].result ELSE issued
    /\ UNCHANGED <<now, started, codec, batchRun, guard>>

\* ---- /blacklist add ----
\* deferReply; the blacklist lookup is awaited
BlacklistAdd(t, target) ==
    /\ CanStart(t)
    /\ SetMem([Mem EXCEPT !.task[t] =
                 [NewFrame("blacklistAdd", target) EXCEPT
                     !.pc = "bl_check", !.queries = 1, !.trips = 1]])
    /\ started' = started + 1
    /\ UNCHANGED <<storeVars, now, obsVars>>

BlacklistChecked(t) ==
    /\ Running(t, "bl_check")
    /\ LET f == task[t] IN
       SetMem(IF f.userId \in blacklist THEN Done(Mem, t, "already")
              ELSE [Mem EXCEPT
                      !.task[t].operations = <<OpSet("blacklist", f.userId, << >>)>>,
                      !.task[t].pc = "bl_whitelist",
                      !.task[t].queries = @ + 1, !.task[t].trips = @ + 1])
    /\ UNCHANGED <<storeVars, now, started, obsVars>>

\* whitelist lookup served; then getUserActiveKeys(target, tag, true)
BlacklistWhitelistRead(t) ==
    /\ Running(t, "bl_whitelist")
    /\ LET f == task[t]
           whitelistDoc == whitelist[f.userId]
           ops == IF whitelistDoc.exists
                  THEN <<OpDelete("whitelist", f.userId)>>
                         \o (IF whitelistDoc.key # <<>>
                             THEN <<OpDelete("keys", whitelistDoc.key)>> ELSE <<>>)
                  ELSE <<>>
       IN SetMem(getUserActiveKeys([Mem EXCEPT !.task[t].operations = @ \o ops], t, TRUE))
    /\ UNCHANGED <<storeVars, now, started, obsVars>>

\* await safeBatchCommit(operations); then logging, role removal and the
\* notification are awaited
BlacklistCommit(t) ==
    /\ Running(t, "bl_commit")
    /\ LET r == safeBatchCommit(Store, task[t].operations) IN
       /\ SetStore(r.store)
       /\ SetMem(IF r.ok THEN [Mem EXCEPT !.task[t].pc = "bl_notify"]
                 ELSE Done(Mem, t, "error"))
    /\ UNCHANGED <<now, started, obsVars>>

BlacklistNotified(t) ==
    /\ Running(t, "bl_notify")
    /\ SetMem(invalidateUserCache(Mem, t))
    /\ UNCHANGED <<storeVars, now, started, obsVars>>

\* ---- /whitelist add, /whitelist remove ----
\* deferReply; the whitelist lookup is awaited
WhitelistAdd(t, target) ==
    /\ CanStart(t)
    /\ SetMem([Mem EXCEPT !.task[t] =
                 [NewFrame("whitelistAdd", target) EXCEPT
                     !.pc = "wa_check", !.queries = 1, !.trips = 1]])
    /\ started' = started + 1
    /\ UNCHANGED <<storeVars, now, obsVars>>

\* already whitelisted: reply; else the key and the grant are batched and
\* safeBatchCommit is awaited
WhitelistAddChecked(t) ==
    /\ Running(t, "wa_check")
    /\ LET f == task[t] IN
       SetMem(IF whitelist[f.userId].exists THEN Done(Mem, t, "already")
              ELSE [Mem EXCEPT
                      !.task[t].operations = GrantOps(f.userId, f.tag, UnusedKey(Mem)),
                      !.task[t].pc = "ad_commit", !.task[t].trips = @ + 1])
    /\ UNCHANGED <<storeVars, now, started, obsVars>>

WhitelistRemove(t, target) ==
    /\ CanStart(t)
    /\ SetMem([Mem EXCEPT !.task[t] =
                 [NewFrame("whitelistRemove", target) EXCEPT
                     !.pc = "wr_check", !.queries = 1, !.trips = 1]])
    /\ started' = started + 1
    /\ UNCHANGED <<storeVars, now, obsVars>>

\* not whitelisted: reply; else the grant and its key are batched for
\* deletion and safeBatchCommit is awaited
WhitelistRemoveChecked(t) ==
    /\ Running(t, "wr_check")
    /\ LET f == task[t]
           doc == whitelist[f.userId]
       IN SetMem(IF ~doc.exists THEN Done(Mem, t, "absent")
                 ELSE [Mem EXCEPT
                         !.task[t].operations =
                             <<OpDelete("whitelist", f.userId)>>
                               \o (IF doc.key # <<>>
                                   THEN <<OpDelete("keys", doc.key)>> ELSE <<>>),
                         !.task[t].pc = "ad_commit", !.task[t].trips = @ + 1])
    /\ UNCHANGED <<storeVars, now, started, obsVars>>

\* ---- /removekey, /sethwidlimit ----
\* deferReply; getUserActiveKeys(target, tag, true) is awaited
RemoveKey(t, target) ==
    /\ CanStart(t)
    /\ SetMem(getUserActiveKeys([Mem EXCEPT !.task[t] = NewFrame("removekey", target)],
                                t, TRUE))
    /\ started' = started + 1
    /\ UNCHANGED <<storeVars, now, obsVars>>

\* whitelist lookup served; safeBatchCommit is awaited
RemoveKeyWhitelistRead(t) ==
    /\ Running(t, "rk_whitelist")
    /\ LET f == task[t]
           ops == IF whitelist[f.userId].exists
                  THEN <<OpDelete("whitelist", f.userId)>> ELSE <<>>
       IN SetMem([Mem EXCEPT !.task[t].operations = @ \o ops,
                             !.task[t].pc = "ad_commit", !.task[t].trips = @ + 1])
    /\ UNCHANGED <<storeVars, now, started, obsVars>>

SetHwidLimit(t, target, newLimit) ==
    /\ CanStart(t)
    /\ SetMem(getUserActiveKeys(
                 [Mem EXCEPT !.task[t] = [NewFrame("sethwidlimit", target) EXCEPT
                                             !.newLimit = newLimit]],
                 t, TRUE))
    /\ started' = started + 1
    /\ UNCHANGED <<storeVars, now, obsVars>>

\* ---- /syncvip ----
\* deferReply; interaction.guild.members.fetch() is awaited
SyncVip(t, premiumMembers) ==
    /\ CanStart(t)
    /\ SetMem([Mem EXCEPT !.task[t] =
                 [NewFrame("syncvip", Head(premiumMembers)) EXCEPT
                     !.tag = AdminTag, !.members = premiumMembers,
                     !.pc = "sv_fetch", !.trips = 1]])
    /\ started' = started + 1
    /\ UNCHANGED <<storeVars, now, obsVars>>

\* the member list arrived, or the pause after a member is over: the loop
\* goes on
SyncVipResumed(t) ==
    /\ task[t].pc \in {"sv_fetch", "sv_pause"}
    /\ SetMem(SyncVipLoop(Mem, t))
    /\ UNCHANGED <<storeVars, now, started, obsVars>>

\* ---- the tail the four commands share ----
\* the commands that await invalidateUserCache right after the commit
InvalidatesAtOnce == {"whitelistAdd", "sethwidlimit", "syncvip"}

\* a plausible slip: the commit is not followed by the invalidation
CommandCommitted_NoInvalidate(m, t, ok) ==
    IF ~ok THEN Done(m, t, "error")
    ELSE IF m.task[t].op = "syncvip" THEN [m EXCEPT !.task[t].pc = "sv_pause"]
    ELSE Done(m, t, "success")

\* after await safeBatchCommit(operations): /whitelist add, /sethwidlimit
\* and /syncvip enter invalidateUserCache; /whitelist remove and
\* /removekey await the role removal and the notification first
CommandCommitted(m, t, ok) ==
    IF ~ok THEN Done(m, t, "error")
    ELSE IF m.task[t].op \in InvalidatesAtOnce THEN invalidateUserCache(m, t)
    ELSE [m EXCEPT !.task[t].pc = "ad_notify", !.task[t].trips = @ + 1]

CommandCommit(t) ==
    /\ Running(t, "ad_commit")
    /\ LET r == safeBatchCommit(Store, task[t].operations) IN
       /\ SetStore(r.store)
       /\ SetMem(CommandCommitted([Mem EXCEPT !.store = r.store], t, r.ok))
    /\ UNCHANGED <<now, started, obsVars>>

\* role removal and notification are over (their errors are logged):
\* invalidateUserCache is entered
CommandNotified(t) ==
    /\ Running(t, "ad_notify")
    /\ SetMem(invalidateUserCache(Mem, t))
    /\ UNCHANGED <<storeVars, now, started, obsVars>>

\* a call that a command awaits outside a try block rejects (deferReply, a
\* store read, the member fetch, or the commit, which then writes nothing):
\* the handler ends in its catch
CommandCallRejects(t) ==
    /\ task[t].pc \in {"wa_check", "wr_check", "rk_whitelist", "sv_fetch", "ad_commit"}
    /\ SetMem(Done(Mem, t, "error"))
    /\ UNCHANGED <<storeVars, now, started, obsVars>>

\* ==================== bot.js ====================
\* bot.js keeps the same four collections and its own userKeyCache; its
\* cache entries carry no lastRefresh (the field stays 0 here)
BOT_CACHE_DURATION == 600000
maxRetries == 3
RETRY_DELAY == 1000

\* expiresAt !== null && expiresAt !== undefined && expiresAt.toMillis() < now
BotExpired(data, t) == data.expiresAt # NullTime /\ data.expiresAt < t

\* db.collection('keys').where('usedByDiscord', '==', discordTag).get()
BotQueryByTag(st, discordTag) ==
    LET Want(e) == e.data.exists /\ e.data.usedByDiscord = discordTag
    IN SelectSeq(AllKeyDocs(st), Want)

\* snapshotId.forEach body
BotClassifyId(acc, doc, t) ==
    IF BotExpired(doc.data, t)
    THEN [acc EXCEPT !.expiredKeys = Append(@, doc.id)]
    ELSE [acc EXCEPT !.keySet = SetAdd(@, doc.id)]

RECURSIVE BotForEachId(_, _, _, _)
BotForEachId(docs, i, acc, t) ==
    IF i > Len(docs) THEN acc
    ELSE BotForEachId(docs, i + 1, BotClassifyId(acc, docs[i], t), t)

\* snapshotTag.forEach body
BotClassifyTag(acc, doc, userId, t) ==
    IF BotExpired(doc.data, t)
    THEN [acc EXCEPT !.expiredKeys = Append(@, doc.id)]
    ELSE [acc EXCEPT !.keySet = SetAdd(@, doc.id),
                     !.ops = IF doc.data.userId = Null
                             THEN Append(@, OpUpdate("keys", doc.id, [userId |-> userId]))
                             ELSE @]

RECURSIVE BotForEachTag(_, _, _, _, _)
BotForEachTag(docs, i, acc, userId, t) ==
    IF i > Len(docs) THEN acc
    ELSE BotForEachTag(docs, i + 1, BotClassifyTag(acc, docs[i], userId, t), userId, t)

\* { keys: result, expires: Date.now() + CACHE_DURATION }
BotCacheEntry(ks) ==
    [present |-> TRUE, keys |-> ks, expires |-> now + BOT_CACHE_DURATION, lastRefresh |-> 0]

\* attemptBatchCommit() up to its await batch.commit()
attemptBatchCommit(m, s) ==
    [m EXCEPT !.task[s].pc = "bb_commit", !.task[s].attempts = @ + 1]

\* a plausible slip: the bound is tested with <=
RetryLeft_Inclusive(retryCount) == retryCount <= maxRetries

\* if (retryCount < maxRetries)
RetryLeft(retryCount) == retryCount < maxRetries

\* the migration and cleanup writes, in the order the batch receives them
BotBatchOps(acc) == acc.ops \o DeleteKeyOps(acc.expiredKeys)

\* getUserActiveKeys calls attemptBatchCommit() without await: the batch
\* runs detached in slot s
BotStartBatch(m, s, f, ops) ==
    attemptBatchCommit([m EXCEPT !.task[s] =
                           [IdleFrame EXCEPT !.op = "botBatch", !.userId = f.userId,
                                             !.tag = f.tag, !.operations = ops,
                                             !.calledAt = now]], s)

\* the bot.js handlers that change the key records of their target
BotCommands == {"botWhitelistAdd", "botWhitelistRemove", "botBlacklistAdd",
                "botRemovekey", "botRedeem"}

\* a bot.js handler ends: reply, or the catch of interactionCreate
BotDone(m, t, outcome) == Done(m, t, outcome)

\* /blacklist add and /removekey of bot.js after await getUserActiveKeys(...)
BotKeysReturned(m, t, ok) ==
    LET f == m.task[t] IN
    IF ~ok THEN BotDone(m, t, "error")
    ELSE IF f.op = "botBlacklistAdd"
    THEN [m EXCEPT !.task[t].userKeys = f.result,
                   !.task[t].operations = f.operations \o DeleteKeyOps(f.result),
                   !.task[t].pc = "bc_commit"]
    ELSE IF Len(f.result) = 0 THEN BotDone(m, t, "no_keys")
    ELSE [m EXCEPT !.task[t].userKeys = f.result,
                   !.task[t].operations = DeleteKeyOps(f.result),
                   !.task[t].pc = "bc_read"]

\* the caller of bot.js getUserActiveKeys resumes with task[t].result (ok)
\* or with the error it threw (~ok)
BotGetReturn(m, t, ok) ==
    IF m.task[t].op \in BotCommands THEN BotKeysReturned(m, t, ok)
    ELSE [Done(m, t, IF ok THEN "returned" ELSE "thrown") EXCEPT
             !.task[t].cacheAtReturn = m.cache[m.task[t].userId],
             !.task[t].storeAtReturn = m.store]

\* getUserActiveKeys after await Promise.all([...]): both snapshots are
\* classified, the batch is started if it has writes, the cache is written
\* and the result returned
BotClassified(m, t) ==
    LET f == m.task[t]
        acc0 == [keySet |-> <<>>, expiredKeys |-> <<>>, ops |-> <<>>]
        acc1 == BotForEachId(f.userIdSnapshot, 1, acc0, now)
        acc2 == BotForEachTag(f.tagSnapshot, 1, acc1, f.userId, now)
        ops == BotBatchOps(acc2)
        m1 == IF ops # <<>> THEN BotStartBatch(m, LowestFree(m, t), f, ops) ELSE m
        m2 == [m1 EXCEPT !.cache[f.userId] = BotCacheEntry(acc2.keySet),
                         !.task[t].keySet = acc2.keySet,
                         !.task[t].expiredKeys = acc2.expiredKeys,
                         !.task[t].updateOperations = ops,
                         !.task[t].classifiedAt = now,
                         !.task[t].result = acc2.keySet,
                         !.task[t].rfStatus = "ok"]
    IN BotGetReturn(m2, t, TRUE)

\* bot.js getUserActiveKeys(userId, discordTag) up to its first await
BotGetUserActiveKeys(m, t) ==
    LET f == m.task[t]
        cached == m.cache[f.userId]
    IN IF cached.present /\ cached.expires > now
       THEN BotGetReturn([m EXCEPT !.task[t].result = cached.keys], t, TRUE)
       ELSE [m EXCEPT !.task[t].pc = "bq_query",
                      !.task[t].pendingReads = {"userId", "tag"},
                      !.task[t].userIdSnapshot = <<>>, !.task[t].tagSnapshot = <<>>,
                      !.task[t].startTime = now, !.task[t].rfStatus = "running",
                      !.task[t].cacheAtEntry = cached,
                      !.task[t].queries = @ + 2, !.task[t].trips = @ + 1,
                      !.task[t].refreshes = @ + 1]

\* a caller of bot.js getUserActiveKeys(userId, discordTag)
BotLookup(t, userId) ==
    /\ CanStart(t)
    /\ LET ended == {s \in TaskIds : /\ task[s].op \in BotCommands
                                     /\ task[s].pc = "done"
                                     /\ task[s].outcome = "success"}
           f == [NewFrame("botLookup", userId) EXCEPT
                    !.after = IF ended = {} THEN @
                              ELSE [op |-> task[CHOOSE s \in ended : TRUE].op,
                                    outcome |-> "success"]]
       IN SetMem(BotGetUserActiveKeys([Mem EXCEPT !.task[t] = f], t))
    /\ started' = started + 1
    /\ UNCHANGED <<storeVars, now, obsVars>>

\* one of the two reads of the Promise.all is served by the store
BotQuery(t, which) ==
    /\ Running(t, "bq_query")
    /\ which \in task[t].pendingReads
    /\ LET f == task[t]
           m1 == [Mem EXCEPT
                    !.task[t].pendingReads = @ \ {which},
                    !.task[t].userIdSnapshot =
                        IF which = "userId" THEN QueryByUserId(Store, f.userId) ELSE @,
                    !.task[t].tagSnapshot =
                        IF which = "tag" THEN BotQueryByTag(Store, f.tag) ELSE @]
       IN /\ f.pendingReads = {which} => FreeSlots(m1, t) # {}
          /\ SetMem(IF f.pendingReads = {which} THEN BotClassified(m1, t) ELSE m1)
    /\ UNCHANGED <<storeVars, now, started, obsVars>>

\* one of the two reads rejects: getUserActiveKeys throws
BotQueryError(t) ==
    /\ Running(t, "bq_query")
    /\ SetMem(BotGetReturn([Mem EXCEPT !.task[t].rfStatus = "failed"], t, FALSE))
    /\ UNCHANGED <<storeVars, now, started, obsVars>>

\* await batch.commit() resolves: the writes are in the store
BotBatchCommitted(s) ==
    /\ Running(s, "bb_commit")
    /\ LET r == CommitBatch(Store, task[s].operations) IN
       /\ r.ok
       /\ SetStore(r.store)
       /\ SetMem(Done(Mem, s, "committed"))
    /\ UNCHANGED <<now, started, obsVars>>

\* await batch.commit() rejects (the store refuses, or a record to update
\* is gone): catch { retryCount++; setTimeout(..., 1000 * retryCount) or give up }
BotBatchRejected(s) ==
    /\ Running(s, "bb_commit")
    /\ LET retryCount == task[s].retryCount + 1 IN
       SetMem(IF RetryLeft(retryCount)
              THEN [Mem EXCEPT !.task[s].retryCount = retryCount,
                               !.task[s].pc = "bb_timer",
                               !.task[s].dueAt = now + RETRY_DELAY * retryCount]
              ELSE Done([Mem EXCEPT !.task[s].retryCount = retryCount], s, "exhausted"))
    /\ UNCHANGED <<storeVars, now, started, obsVars>>

\* the timer fires: attemptBatchCommit() runs again
BotBatchTimer(s) ==
    /\ Running(s, "bb_timer")
    /\ now >= task[s].dueAt
    /\ SetMem(attemptBatchCommit(Mem, s))
    /\ UNCHANGED <<storeVars, now, started, obsVars>>

BotKeysNext(t) ==
    \/ \E which \in {"userId", "tag"} : BotQuery(t, which)
    \/ BotQueryError(t)
    \/ BotBatchCommitted(t)
    \/ BotBatchRejected(t)
    \/ BotBatchTimer(t)

\* ---- bot.js: /whitelist add, /whitelist remove, /blacklist add, /removekey,
\* redeem_submit ----
BOT_COOLDOWN == 5000

\* the key record /whitelist add of bot.js writes (no usedByDiscord field)
BotWhitelistKeyRecord(userId) ==
    [NoKeyDoc EXCEPT !.exists = TRUE, !.userId = userId, !.hwidLimit = 1,
                     !.whitelisted = TRUE]

\* the key record redeem_submit of bot.js writes (no usedByDiscord field)
BotRedeemedKeyRecord(userId, pendingData) ==
    [NoKeyDoc EXCEPT !.exists = TRUE, !.userId = userId, !.hwidLimit = 1,
                     !.expiresAt = IF pendingData.expiresInDays = NullTime THEN NullTime
                                   ELSE now + pendingData.expiresInDays * DAY_MS]

\* inputKey.startsWith(KEY_PREFIX + "-")
BotKeyFormatOk(inputKey) ==
    /\ Len(inputKey) > Len(KEY_PREFIX)
    /\ SubSeq(inputKey, 1, Len(KEY_PREFIX) + 1) = KEY_PREFIX \o <<"-">>

\* a slash command of bot.js arrives: deferReply, then its first store
\* read or, for /removekey, getUserActiveKeys is awaited
BotCommand(t, kind, target) ==
    /\ kind \in BotCommands \ {"botRedeem"}
    /\ CanStart(t)
    /\ LET m0 == [Mem EXCEPT !.task[t] = NewFrame(kind, target)]
       IN /\ kind = "botRemovekey" => FreeSlots(m0, t) # {}
          /\ SetMem(IF kind = "botRemovekey" THEN BotGetUserActiveKeys(m0, t)
                    ELSE [m0 EXCEPT !.task[t].pc = "bc_read", !.task[t].trips = 1])
    /\ started' = started + 1
    /\ UNCHANGED <<storeVars, now, obsVars>>

\* the modal is submitted: the 5 s cooldown of every component interaction,
\* deferReply, the prefix test, and the keys/<key> lookup is awaited
BotRedeemSubmit(t, userId, keyInput) ==
    /\ CanStart(t)
    /\ LET inputKey == toUpperCase(trim(keyInput))
           m0 == [Mem EXCEPT !.task[t] = [NewFrame("botRedeem", userId) EXCEPT
                                             !.inputKey = inputKey]]
       IN SetMem(IF cooldowns[userId] # NullTime /\ now < cooldowns[userId]
                 THEN BotDone(m0, t, "cooldown")
                 ELSE LET m1 == [m0 EXCEPT !.cd[userId] = now + BOT_COOLDOWN] IN
                      IF ~BotKeyFormatOk(inputKey) THEN BotDone(m1, t, "bad_format")
                      ELSE [m1 EXCEPT !.task[t].pc = "bc_read", !.task[t].trips = 1])
    /\ started' = started + 1
    /\ UNCHANGED <<storeVars, now, obsVars>>

\* the document read a handler awaits is served; the handler runs on to
\* its next await
BotDocRead(t) ==
    /\ task[t].pc \in {"bc_read", "bc_read2"}
    /\ task[t].op \in BotCommands
    /\ LET f == task[t]
           grant == whitelist[f.userId]
           grantOps == IF grant.exists
                       THEN <<OpDelete("whitelist", f.userId)>>
                              \o (IF grant.key # <<>> /\ f.op # "botRemovekey"
                                  THEN <<OpDelete("keys", grant.key)>> ELSE <<>>)
                       ELSE <<>>
           known == f.inputKey \in KeyIds
           Batch(ops) == [Mem EXCEPT !.task[t].operations = ops,
                                     !.task[t].pc = "bc_commit"]
       IN /\ (f.op = "botBlacklistAdd" /\ f.pc = "bc_read2") => FreeSlots(Mem, t) # {}
          /\ SetMem(
               IF f.op = "botWhitelistAdd"
               THEN IF grant.exists THEN BotDone(Mem, t, "already")
                    ELSE LET newKey == UnusedKey(Mem) IN
                         Batch(<<OpSet("keys", newKey, BotWhitelistKeyRecord(f.userId)),
                                 OpSet("whitelist", f.userId, WhitelistGrant(f.tag, newKey))>>)
               ELSE IF f.op = "botWhitelistRemove"
               THEN IF ~grant.exists THEN BotDone(Mem, t, "absent") ELSE Batch(grantOps)
               ELSE IF f.op = "botRemovekey" THEN Batch(f.operations \o grantOps)
               ELSE IF f.op = "botBlacklistAdd"
               THEN IF f.pc = "bc_read"
                    THEN IF f.userId \in blacklist THEN BotDone(Mem, t, "already")
                         ELSE [Mem EXCEPT !.task[t].operations =
                                              <<OpSet("blacklist", f.userId, << >>)>>,
                                          !.task[t].pc = "bc_read2"]
                    ELSE BotGetUserActiveKeys(
                             [Mem EXCEPT !.task[t].operations = @ \o grantOps], t)
               ELSE \* redeem_submit
                    IF f.pc = "bc_read"
                    THEN IF known /\ keys[f.inputKey].exists
                         THEN BotDone(Mem, t, "already_used")
                         ELSE [Mem EXCEPT !.task[t].pc = "bc_read2"]
                    ELSE IF ~(known /\ generated_keys[f.inputKey].exists)
                         THEN BotDone(Mem, t, "not_found")
                         ELSE Batch(<<OpSet("keys", f.inputKey,
                                            BotRedeemedKeyRecord(f.userId,
                                                                 generated_keys[f.inputKey])),
                                      OpDelete("generated_keys", f.inputKey)>>))
    /\ UNCHANGED <<storeVars, now, started, obsVars>>

\* await batch.commit() of a handler resolves; logAction, the role change
\* and the notification are awaited next
BotCommit(t) ==
    /\ Running(t, "bc_commit")
    /\ LET r == CommitBatch(Store, task[t].operations) IN
       /\ r.ok
       /\ SetStore(r.store)
       /\ SetMem([Mem EXCEPT
                    !.task = [s \in TaskIds |->
                                IF s = t THEN [@[s] EXCEPT !.pc = "bc_notify"]
                                ELSE IF @[s].op = "botLookup" /\ @[s].pc # "done"
                                THEN [@[s] EXCEPT !.after.outcome = "overlapped"]
                                ELSE @[s]]])
    /\ UNCHANGED <<now, started, obsVars>>

\* the handlers with userKeyCache.delete(target) after their notification:
\* /whitelist add has none
DropsCache(op) == op # "botWhitelistAdd"

\* logging, role change and notification are over: userKeyCache.delete
\* where the handler has it, then the reply
BotNotified(t) ==
    /\ Running(t, "bc_notify")
    /\ LET f == task[t]
           m1 == IF DropsCache(f.op) THEN [Mem EXCEPT !.cache[f.userId] = NoEntry] ELSE Mem
       IN SetMem(BotDone(m1, t, "success"))
    /\ UNCHANGED <<storeVars, now, started, obsVars>>

\* a call the handler awaits outside a try block rejects (a store read,
\* the commit, the role change or the notification): the catch of
\* interactionCreate replies and the handler ends
BotCallRejects(t) ==
    /\ task[t].pc \in {"bc_read", "bc_read2", "bc_commit", "bc_notify"}
    /\ SetMem(BotDone(Mem, t, "error"))
    /\ UNCHANGED <<storeVars, now, started, obsVars>>

BotCommandNext(t) ==
    \/ BotDocRead(t)
    \/ BotCommit(t)
    \/ BotNotified(t)
    \/ BotCallRejects(t)

\* ---- environment ----
MaxNow == StartTime + 360000

Tick(d) ==
    /\ now + d <= MaxNow
    /\ now' = now + d
    /\ UNCHANGED <<storeVars, memVars, task, started, obsVars>>

RefreshNext(t) ==
    \/ \E which \in {"userId", "whitelist"} : RefreshQuery(t, which)
    \/ \E which \in {"tag", "username"} : RefreshAliasQuery(t, which)
    \/ RefreshKeyDoc(t)
    \/ RefreshCommit(t)

\* ==================== SPECIFICATION: reconciliation ====================
\* The store as earlier versions and other handlers may have left it: up to
\* two key records with any owner, label, whitelist flag and expiry, and a
\* whitelist grant of user "101" that may point at a missing record.
PastExpiry == StartTime - 1
SoonExpiry == StartTime + 60000

OwnerChoices == {Null} \cup Users
LabelChoices == {NoTag, TagOf("101"), Username(TagOf("101"))}
ExpiryChoices == {NullTime, PastExpiry, SoonExpiry}

KeyRecordChoices ==
    {NoKeyDoc} \cup
    [exists : {TRUE}, userId : OwnerChoices, usedByDiscord : LabelChoices,
     whitelisted : BOOLEAN, expiresAt : ExpiryChoices, hwid : {""}, hwidLimit : {1}]

GrantChoices ==
    {NoWhitelistDoc} \cup
    {[exists |-> TRUE, key |-> k, discordTag |-> TagOf("101")] : k \in KeyIds}

KeyRec(userId, label, wl, expiresAt) ==
    [exists |-> TRUE, userId |-> userId, usedByDiscord |-> label,
     whitelisted |-> wl, expiresAt |-> expiresAt, hwid |-> "", hwidLimit |-> 1]

\* the second record is drawn from a few typical shapes
SecondRecordChoices ==
    {NoKeyDoc,
     KeyRec("101", TagOf("101"), FALSE, NullTime),
     KeyRec(Null, Username(TagOf("101")), FALSE, SoonExpiry),
     KeyRec("102", TagOf("101"), FALSE, NullTime),
     KeyRec("101", NoTag, TRUE, PastExpiry)}

InitRefresh ==
    /\ keys \in {[k \in KeyIds |-> IF k = KeyA THEN a ELSE b] :
                   a \in KeyRecordChoices, b \in SecondRecordChoices}
    /\ generated_keys = [k \in KeyIds |-> NoPendingDoc]
    /\ whitelist \in {[u \in Users |-> IF u = "101" THEN g ELSE NoWhitelistDoc] : g \in GrantChoices}
    /\ blacklist = {}
    /\ EmptyMemInit /\ NoTasksInit /\ NoCodecInit /\ NoBatchInit

TickStep == CACHE_SOFT_REFRESH
\* no interactive call is in flight (background refreshes may be)
NoCallRunning == \A s \in TaskIds : task[s].pc \in {"idle", "done"} \/ task[s].op = "bg"
RefreshTicks == 2
RefreshStarts == 2

NextRefresh ==
    \/ (/\ started < RefreshStarts
        /\ NoCallRunning
        /\ \E t \in TaskIds, force \in BOOLEAN : Lookup(t, "101", force))
    \/ \E t \in TaskIds : RefreshNext(t)
    \/ (now < StartTime + RefreshTicks * TickStep /\ Tick(TickStep))

SpecRefresh == InitRefresh /\ [][NextRefresh]_vars

\* ---- observations on a refresh that settles in the current step ----
Ids(docs) == {docs[i].id : i \in 1..Len(docs)}
Docs(docs) == {docs[i] : i \in 1..Len(docs)}

\* the refresh run by frame t returns its result in this step
RefreshReturnedOk(t) == task[t].rfStatus = "running" /\ task'[t].rfStatus = "ok"

\* C3 -- when a refresh for U returns, its result holds every record the
\* identity query found with userId = U and whitelisted = true, whatever
\* its expiresAt, and no record that is stored non-whitelisted with an
\* expiresAt before the time the refresh started.
C3_ExpiryCorrect ==
    [][\A t \in TaskIds : RefreshReturnedOk(t) =>
          LET f == task'[t]
              R == Range(f.result)
          IN /\ \A d \in Docs(f.userIdSnapshot) : d.data.whitelisted => d.id \in R
             /\ \A k \in R :
                   ~(/\ keys'[k].exists
                     /\ ~keys'[k].whitelisted
                     /\ keys'[k].expiresAt # NullTime
                     /\ keys'[k].expiresAt < f.startTime)]_vars

\* a refresh returned a whitelisted record whose expiresAt is in the past,
\* and left out an expired one that is not whitelisted
C3_Witness ==
    \E t \in TaskIds :
        /\ task[t].pc = "done" /\ task[t].rfStatus = "ok"
        /\ \E d \in Docs(task[t].userIdSnapshot) :
              /\ d.data.whitelisted /\ d.data.expiresAt = PastExpiry
              /\ d.id \in Range(task[t].result)
        /\ \E d \in Docs(task[t].userIdSnapshot) :
              /\ ~d.data.whitelisted /\ d.data.expiresAt = PastExpiry
              /\ d.id \notin Range(task[t].result)

\* C4 -- a whitelist grant of U names key K and keys/K does not exist when
\* the refresh looks it up: when the refresh returns, K is in the result
\* and keys/K is stored whitelisted, without expiry, owned by U and
\* labelled with U's tag.
C4_WhitelistRepair ==
    [][\A t \in TaskIds : RefreshReturnedOk(t) =>
          LET f == task'[t]
              K == f.whitelistDoc.key
          IN (/\ f.whitelistDoc.exists
              /\ K \notin Ids(f.userIdSnapshot) \cup Ids(f.tagSnapshot) \cup Ids(f.usernameSnapshot)
              /\ ~f.keyDoc.exists)
             => /\ K \in Range(f.result)
                /\ keys'[K].exists
                /\ keys'[K].whitelisted
                /\ keys'[K].expiresAt = NullTime
                /\ keys'[K].userId = f.userId
                /\ keys'[K].usedByDiscord = f.tag]_vars

\* a refresh found the grant, found no record under its key, and returned
C4_Witness ==
    \E t \in TaskIds :
        /\ task[t].pc = "done" /\ task[t].rfStatus = "ok"
        /\ task[t].whitelistDoc.exists /\ ~task[t].keyDoc.exists
        /\ task[t].whitelistDoc.key = KeyB
        /\ task[t].result = <<KeyA, KeyB>>
        /\ keys[KeyB] = WhitelistKeyRecord("101", TagOf("101"))

\* C5 -- a refresh that is not a background refresh returns an unexpired
\* key that only an alias query reached and whose record had no userId:
\* when it returns, the stored record has userId = U and the identity query
\* finds it; a record keeps its owner; and a background refresh, which
\* asks the identity query only, returns every unexpired record that query
\* finds.
C5_SelfHealConverges ==
    [][/\ \A t \in TaskIds : (RefreshReturnedOk(t) /\ ~task'[t].isBackground) =>
            LET f == task'[t] IN
            \A d \in Docs(f.tagSnapshot) \cup Docs(f.usernameSnapshot) :
                (d.data.userId = Null /\ d.id \in Range(f.result)) =>
                    /\ keys'[d.id].exists
                    /\ keys'[d.id].userId = f.userId
                    /\ d.id \in Ids(QueryByUserId([Store EXCEPT !.keys = keys'], f.userId))
       /\ \A k \in KeyIds :
            (keys[k].exists /\ keys[k].userId # Null /\ keys'[k].exists) =>
                keys'[k].userId = keys[k].userId
       /\ \A t \in TaskIds : (RefreshReturnedOk(t) /\ task'[t].isBackground) =>
            LET f == task'[t] IN
            /\ f.tagSnapshot = <<>> /\ f.usernameSnapshot = <<>>
            /\ \A d \in Docs(f.userIdSnapshot) :
                  ~isKeyExpired(d.data, f.classifiedAt) => d.id \in Range(f.result)]_vars

\* a refresh returned a key it reached by alias only and bound it to "101"
C5_Witness ==
    \E t \in TaskIds :
        /\ task[t].pc = "done" /\ task[t].rfStatus = "ok" /\ ~task[t].isBackground
        /\ \E d \in Docs(task[t].tagSnapshot) \cup Docs(task[t].usernameSnapshot) :
              /\ d.data.userId = Null
              /\ d.id \in Range(task[t].result)
              /\ keys[d.id].userId = "101"

\* ---- C7: one cache miss for an identity without any record ----
\* no record is owned by U or labelled with U's tag or user name, and U
\* has no whitelist grant
NoRecordFor(userId) ==
    /\ \A k \in KeyIds :
          keys[k].exists =>
              /\ keys[k].userId # userId
              /\ keys[k].usedByDiscord \notin {TagOf(userId), Username(TagOf(userId))}
    /\ ~whitelist[userId].exists
    /\ \A k \in KeyIds : ~generated_keys[k].exists

\* a direct call that missed the cache, ran one refresh and returned
MissReturned(t) ==
    /\ task[t].op = "lookup" /\ task[t].pc = "done" /\ task[t].outcome = "returned"
    /\ task[t].refreshes = 1

SecondCall(t) ==
    /\ CanStart(t) /\ started' = started + 1
    /\ task[t].op = "lookup" /\ task[t].pc = "done" /\ task[t].outcome = "returned"
    /\ ~task[t].force
    /\ task'[t].op = "lookup" /\ ~task'[t].force /\ task'[t].userId = task[t].userId
    /\ now - task[t].calledAt < CACHE_SOFT_REFRESH
    /\ Store = task[t].storeAtReturn

\* the first call either missed the cache or was served from an entry not
\* older than CACHE_SOFT_REFRESH
MissOrFreshHit(f) ==
    \/ f.refreshes = 1
    \/ f.refreshes = 0 /\ f.calledAt - f.cacheAtReturn.lastRefresh <= CACHE_SOFT_REFRESH

OperationTypes == {"redeem", "getrole"}
GuardTicks == 2

StartOperationCall(userId, operationType) ==
    /\ LET r == startOperation(activeOperations, userId, operationType) IN
       /\ activeOperations' = r.ao
       /\ guard' = [op |-> "start", userId |-> userId, operationType |-> operationType,
                    ret |-> r.ok, before |-> activeOperations, at |-> now]
    /\ UNCHANGED <<storeVars, userKeyCache, cooldowns, backgroundRefreshQueue,
                   now, task, started, codec, batchRun, issued>>

EndOperationCall(userId, operationType) ==
    /\ activeOperations' = endOperation(activeOperations, userId, operationType)
    /\ guard' = [op |-> "end", userId |-> userId, operationType |-> operationType,
                 ret |-> FALSE, before |-> activeOperations, at |-> now]
    /\ UNCHANGED <<storeVars, userKeyCache, cooldowns, backgroundRefreshQueue,
                   now, task, started, codec, batchRun, issued>>

InitGuard ==
    /\ EmptyStoreInit /\ EmptyMemInit /\ NoTasksInit /\ NoCodecInit /\ NoBatchInit

NextGuard ==
    \/ \E u \in Users, k \in OperationTypes : StartOperationCall(u, k)
    \/ \E u \in Users, k \in OperationTypes : EndOperationCall(u, k)
    \/ (now < StartTime + GuardTicks * TickStep /\ Tick(TickStep))

SpecGuard == InitGuard /\ [][NextGuard]_vars

\* the markers other than key are as they were before the call
OthersKept(key) ==
    /\ DOMAIN activeOperations \ {key} = DOMAIN guard.before \ {key}
    /\ \A k \in DOMAIN guard.before \ {key} : activeOperations[k] = guard.before[k]

\* C1 -- startOperation(id, kind) returns true exactly when no marker for
\* (id, kind) is present, and then sets it, stamped with the current time;
\* while the marker is held a further startOperation(id, kind) returns
\* false and leaves every marker and its timestamp as it was;
\* endOperation(id, kind) removes the marker, so the next
\* startOperation(id, kind) returns true.
C1_SingleFlight ==
    /\ [](guard.op = "start" =>
            LET key == OperationKey(guard.userId, guard.operationType)
                held == key \in DOMAIN guard.before
            IN /\ guard.ret = ~held
               /\ held => activeOperations = guard.before
               /\ ~held => /\ key \in DOMAIN activeOperations
                           /\ activeOperations[key] = guard.at
                           /\ OthersKept(key))
    /\ [](guard.op = "end" =>
            LET key == OperationKey(guard.userId, guard.operationType)
            IN key \notin DOMAIN activeOperations /\ OthersKept(key))
    /\ [][(/\ guard.op = "end" /\ guard'.op = "start"
            /\ guard'.userId = guard.userId
            /\ guard'.operationType = guard.operationType) => guard'.ret]_vars

\* a second start was refused, later than the first, while the marker of
\* the first was held
C1_Witness ==
    /\ guard.op = "start" /\ ~guard.ret
    /\ guard.userId = "101" /\ guard.operationType = "redeem"
    /\ activeOperations[OperationKey("101", "redeem")] < guard.at
    /\ OperationKey("101", "getrole") \in DOMAIN activeOperations

\* after endOperation the start succeeded again
C1_WitnessRestart ==
    /\ guard.op = "start" /\ guard.ret
    /\ guard.at > StartTime
    /\ DOMAIN activeOperations = {OperationKey("102", "redeem")}

\* ==================== SPECIFICATION: concurrent redemption ====================
\* Two identities submit the redeem form, in any interleaving of the store
\* calls their handlers await; KeyA is pending, KeyB is absent or taken.
LowerOf(c) ==
    IF c = "A" THEN "a" ELSE IF c = "B" THEN "b" ELSE IF c = "C" THEN "c"
    ELSE IF c = "D" THEN "d" ELSE IF c = "E" THEN "e" ELSE IF c = "F" THEN "f"
    ELSE IF c = "V" THEN "v" ELSE IF c = "O" THEN "o" ELSE IF c = "R" THEN "r"
    ELSE IF c = "H" THEN "h" ELSE IF c = "U" THEN "u" ELSE c

\* the key text as a user may type it
AsTyped(key) == <<" ">> \o [i \in 1..Len(key) |-> LowerOf(key[i])] \o <<" ">>

RedeemInputs == {KeyA, AsTyped(KeyA), KeyB, SubSeq(KeyA, 1, Len(KeyA) - 1)}

PendingDays == 1
RedeemStarts == 2
RedeemTicks == 1

InitRedeem ==
    /\ \E taken \in BOOLEAN, granted \in BOOLEAN :
         /\ keys = [k \in KeyIds |->
                      IF k = KeyB /\ taken
                      THEN KeyRec("102", TagOf("102"), FALSE, NullTime) ELSE NoKeyDoc]
         /\ whitelist = [u \in Users |->
                      IF u = "101" /\ granted /\ ~taken
                      THEN [exists |-> TRUE, key |-> KeyB, discordTag |-> TagOf("101")]
                      ELSE NoWhitelistDoc]
    /\ \E days \in {NullTime, PendingDays} :
         generated_keys = [k \in KeyIds |-> IF k = KeyA THEN PendingRecord(days)
                                            ELSE NoPendingDoc]
    /\ blacklist \in {{}, {"102"}}
    /\ EmptyMemInit /\ NoTasksInit /\ NoCodecInit /\ NoBatchInit

RedeemNext(t) ==
    \/ RedeemBlacklistChecked(t)
    \/ RedeemActiveChecked(t)
    \/ RedeemPendingChecked(t)
    \/ RedeemCommit(t)
    \/ RedeemNotified(t)

NextRedeem ==
    \/ (/\ started < RedeemStarts
        /\ \E t \in TaskIds, u \in Users, keyInput \in RedeemInputs : RedeemSubmit(t, u, keyInput))
    \/ \E t \in TaskIds : RedeemNext(t)
    \/ \E t \in TaskIds : RefreshNext(t)
    \/ (now < StartTime + RedeemTicks * COOLDOWN_DURATION /\ Tick(COOLDOWN_DURATION))

SpecRedeem == InitRedeem /\ [][NextRedeem]_vars

\* the handler in frame t told its user that the key was redeemed
ReportedSuccess(t) ==
    task[t].op = "redeem" /\ task[t].pc = "done" /\ task[t].outcome = "success"

\* C10 as written -- of the redeem_submit handlers that different
\* identities run for the same pending token, at most one reports success,
\* and once they have all ended keys/K is owned by the identity that was
\* told it succeeded.
C10_OneWinner ==
    /\ \A t1, t2 \in TaskIds :
          (/\ ReportedSuccess(t1) /\ ReportedSuccess(t2)
           /\ task[t1].inputKey = task[t2].inputKey)
          => task[t1].userId = task[t2].userId
    /\ \A t \in TaskIds :
          (/\ ReportedSuccess(t)
           /\ \A s \in TaskIds : task[s].op = "redeem" => task[s].pc = "done")
          => /\ keys[task[t].inputKey].exists
             /\ keys[task[t].inputKey].userId = task[t].userId

\* both identities were told that KeyA is theirs; the record names one
C10_DoubleSuccess ==
    /\ ReportedSuccess(1) /\ ReportedSuccess(2)
    /\ task[1].inputKey = KeyA /\ task[2].inputKey = KeyA
    /\ task[1].userId # task[2].userId
    /\ keys[KeyA].userId \in {task[1].userId, task[2].userId}

\* ==================== SPECIFICATION: end to end ====================
\* One operation after the other, each started when the one before and
\* everything it set off has ended: /genkey, the redemption of the issued
\* key by "101", an active-key lookup, /blacklist add for "101", a lookup.
AllQuiet == \A s \in TaskIds : task[s].pc \in {"idle", "done"}
E2ETicks == 2

InitE2E ==
    /\ \E other \in BOOLEAN :
         keys = [k \in KeyIds |->
                   IF k = KeyB /\ other
                   THEN KeyRec("102", TagOf("102"), FALSE, NullTime) ELSE NoKeyDoc]
    /\ generated_keys = [k \in KeyIds |-> NoPendingDoc]
    /\ whitelist = [u \in Users |-> NoWhitelistDoc]
    /\ blacklist = {}
    /\ EmptyMemInit /\ NoTasksInit /\ NoCodecInit /\ NoBatchInit

\* the store calls of a refresh that finds no whitelist grant and nothing
\* to repair (C9_EndToEnd states that no refresh here goes further)
QueryNext(t) ==
    \/ \E which \in {"userId", "whitelist"} : RefreshQuery(t, which)
    \/ \E which \in {"tag", "username"} : RefreshAliasQuery(t, which)

BlacklistNext(t) ==
    \/ BlacklistChecked(t)
    \/ BlacklistWhitelistRead(t)
    \/ BlacklistCommit(t)
    \/ BlacklistNotified(t)

NextE2E ==
    \/ (/\ AllQuiet
        /\ \E t \in TaskIds :
              \/ (started = 0 /\ \E key \in KeyIds : GenKey(t, key))
              \/ (started = 1 /\ issued # <<>>
                    /\ \E keyInput \in {issued[1], AsTyped(issued[1])} :
                          RedeemSubmit(t, "101", keyInput))
              \/ (started \in {2, 4} /\ \E force \in BOOLEAN : Lookup(t, "101", force))
              \/ (started = 3 /\ BlacklistAdd(t, "101")))
    \/ \E t \in TaskIds : GenKeyCommit(t)
    \/ \E t \in TaskIds : RedeemNext(t)
    \/ \E t \in TaskIds : BlacklistNext(t)
    \/ \E t \in TaskIds : QueryNext(t)
    \/ (now < StartTime + E2ETicks * TickStep /\ Tick(TickStep))

SpecE2E == InitE2E /\ [][NextE2E]_vars

LookupReturned(t) ==
    task[t].op = "lookup" /\ task[t].pc = "done" /\ task[t].outcome = "returned"

\* C9 -- from a store without records of "101": after one permanent key K
\* is issued and redeemed by "101", the active-key lookup for "101"
\* returns exactly {K}; after /blacklist add for "101" the lookup returns
\* the empty set and no document keys/K is left.
C9_EndToEnd ==
    /\ \A t \in TaskIds : task[t].pc \notin {"rf_keydoc", "rf_commit"}
    /\ \A t \in TaskIds :
          (task[t].op = "redeem" /\ task[t].pc = "done") =>
              /\ task[t].outcome = "success"
              /\ keys[issued[1]] = KeyRec("101", TagOf("101"), FALSE, NullTime)
              /\ ~generated_keys[issued[1]].exists
    /\ \A t \in TaskIds :
          (LookupReturned(t) /\ started = 3) => task[t].result = <<issued[1]>>
    /\ \A t \in TaskIds :
          (task[t].op = "blacklistAdd" /\ task[t].pc = "done") =>
              /\ task[t].outcome = "success"
              /\ "101" \in blacklist
              /\ ~keys[issued[1]].exists
    /\ \A t \in TaskIds :
          (LookupReturned(t) /\ started = 5) =>
              /\ task[t].result = <<>>
              /\ ~keys[issued[1]].exists

\* the first half has run: the lookup after the redemption returned the key
C9_WitnessRedeemed ==
    \E t \in TaskIds :
        /\ LookupReturned(t) /\ started = 3
        /\ task[t].result = <<issued[1]>>
        /\ keys[issued[1]].userId = "101"

\* the whole scenario has run: a key was issued, and the last lookup,
\* after the blacklisting, went to the store and returned the empty set
C9_Witness ==
    \E t \in TaskIds :
        /\ LookupReturned(t) /\ started = 5
        /\ Len(issued) = 1
        /\ task[t].refreshes = 1
        /\ task[t].result = <<>>
        /\ "101" \in blacklist
        /\ ~keys[issued[1]].exists

\* ==================== SPECIFICATION: format validation ====================
GroupLenSlack == 1
FmtAlphabet == {"A", "F", "0", "9", "G", "a", "f", "-", " "}
GoodGroups == <<SubSeq(KeyA, 9, 14), SubSeq(KeyA, 16, 21), SubSeq(KeyA, 23, 28)>>

\* a base group cut or padded to length len
ResizeGroup(g, len) ==
    [j \in 1..len |-> IF j <= Len(g) THEN g[j] ELSE "0"]

\* groups near a good one: other lengths, one character replaced
NearGroups(g) ==
    UNION { LET base == ResizeGroup(g, len) IN
            {base} \cup { [base EXCEPT ![j] = c] : j \in 1..len, c \in FmtAlphabet }
          : len \in (GROUP_LEN - GroupLenSlack)..(GROUP_LEN + GroupLenSlack) }

FmtPrefixes == {KEY_PREFIX,
                <<"v", "o", "r", "a", "h", "u", "b">>,
                <<"V", "O", "R", "A", "H", "U", "X">>,
                <<"V", "O", "R", "A", "H", "U">>,
                <<"X">> \o KEY_PREFIX}

RECURSIVE JoinGroups(_)
JoinGroups(gs) == IF gs = <<>> THEN <<>> ELSE <<"-">> \o Head(gs) \o JoinGroups(Tail(gs))

\* candidate inputs: a prefix and 2..4 groups, at most one of them varied
FmtTokens ==
    { p \o JoinGroups([i \in 1..n |->
                          IF i = v THEN g
                          ELSE GoodGroups[((i - 1) % GROUP_COUNT) + 1]])
      : p \in FmtPrefixes,
        n \in {GROUP_COUNT - 1, GROUP_COUNT, GROUP_COUNT + 1},
        v \in 1..(GROUP_COUNT + 1),
        g \in NearGroups(GoodGroups[1]) }

InitFormat ==
    /\ EmptyStoreInit /\ EmptyMemInit /\ NoTasksInit /\ NoBatchInit
    /\ \E tok \in FmtTokens : codec = [token |-> tok, checked |-> FALSE, result |-> FALSE]

ValidateFormat ==
    /\ ~codec.checked
    /\ codec' = [codec EXCEPT !.checked = TRUE,
                              !.result = isValidKeyFormat(codec.token)]
    /\ UNCHANGED <<storeVars, memVars, now, task, started, batchRun, guard, issued>>

NextFormat == ValidateFormat
SpecFormat == InitFormat /\ [][NextFormat]_vars


\* ---- the format as the claim words it, independent of the pattern ----
ClaimHexAlphabet == {"0", "1", "2", "3", "4", "5", "6", "7", "8", "9"}
                      \cup {"A", "B", "C", "D", "E", "F"}

RECURSIVE SplitDash(_, _, _)
SplitDash(s, i, cur) ==
    IF i > Len(s) THEN <<cur>>
    ELSE IF s[i] = "-" THEN <<cur>> \o SplitDash(s, i + 1, <<>>)
    ELSE SplitDash(s, i + 1, Append(cur, s[i]))

WellFormedToken(tok) ==
    LET parts == SplitDash(tok, 1, <<>>) IN
    /\ Len(parts) = 4
    /\ parts[1] = <<"V", "O", "R", "A", "H", "U", "B">>
    /\ \A i \in 2..4 : /\ Len(parts[i]) = 6
                       /\ \A j \in 1..6 : parts[i][j] \in ClaimHexAlphabet

\* C8 -- isValidKeyFormat(token) is true exactly for tokens that split at
\* "-" into the prefix VORAHUB followed by three groups of exactly six
\* characters from 0-9 and upper-case A-F, and the check leaves the store
\* and every in-memory map as they were.
C8_FormatExact ==
    codec.checked =>
        /\ codec.result = WellFormedToken(codec.token)
        /\ \A k \in KeyIds : keys[k] = NoKeyDoc /\ generated_keys[k] = NoPendingDoc
        /\ \A u \in Users : userKeyCache[u] = NoEntry /\ cooldowns[u] = NullTime
        /\ DOMAIN activeOperations = {}

C8_Witness == codec.checked /\ codec.result /\ codec.token = KeyA

C8_WitnessLower == codec.checked /\ ~codec.result /\ \E i \in 1..Len(codec.token) : codec.token[i] = "a"

\* ==================== SPECIFICATION: batch chunking ====================
MaxBatchOps == 1000

InitBatch ==
    /\ EmptyStoreInit /\ EmptyMemInit /\ NoTasksInit /\ NoCodecInit
    /\ \E n \in 0..MaxBatchOps :
         batchRun = [operations |-> [i \in 1..n |-> i], status |-> "unset",
                     batches |-> <<>>, created |-> 0, failing |-> {}, attempted |-> {},
                     committed |-> <<>>, ret |-> -1, error |-> NoError]

SelectSeq2(s, keep) ==
    LET F[i \in 0..Len(s)] ==
          IF i = 0 THEN <<>>
          ELSE IF i \in keep THEN Append(F[i - 1], s[i]) ELSE F[i - 1]
    IN F[Len(s)]

\* a plausible slip: the batches are committed one after the other and
\* the first rejection ends the loop
CommitEach_Sequential(batches, failing) ==
    LET n == Len(batches)
        stop == IF failing \cap (1..n) = {} THEN n
                ELSE CHOOSE i \in failing \cap (1..n) : \A j \in failing \cap (1..n) : i <= j
    IN [attempted |-> 1..stop,
        committed |-> SelectSeq2(batches, (1..stop) \ failing)]

\* batches.map(b => b.commit()): every commit is issued before the first
\* one is awaited; the store applies each batch whole unless it rejects it
CommitEach(batches, failing) ==
    [attempted |-> 1..Len(batches),
     committed |-> SelectSeq2(batches, (1..Len(batches)) \ failing)]

\* the rejection of commit i as the store raised it; this code adds nothing
StoreError(i) == [thrown |-> TRUE, name |-> "StoreError", batch |-> i, uncommitted |-> NullTime]

\* safeBatchCommit(operations) with the commits in 'failing' rejected by
\* the store, 'first' being the rejection Promise.all settles with:
\* catch (error) { throw error }
MaxBatches == 3
SafeBatchCommitCall ==
    /\ batchRun.status = "unset"
    /\ \E split \in {safeBatchSplit(batchRun.operations)} :
       \E failing \in SUBSET (1..MaxBatches) :
          /\ failing \subseteq 1..Len(split.batches)
          /\ \E first \in (IF failing = {} THEN {0} ELSE failing),
                run \in {CommitEach(split.batches, failing)} :
               batchRun' = [batchRun EXCEPT
                  !.batches = split.batches,
                  !.created = split.created,
                  !.failing = failing,
                  !.attempted = run.attempted,
                  !.committed = run.committed,
                  !.status = IF failing = {} THEN "returned" ELSE "thrown",
                  !.ret = IF failing = {} THEN Len(split.batches) ELSE -1,
                  !.error = IF failing = {} THEN NoError ELSE StoreError(first)]
    /\ UNCHANGED <<storeVars, memVars, now, task, started, codec, guard, issued>>

NextBatch == SafeBatchCommitCall
SpecBatch == InitBatch /\ [][NextBatch]_vars

RECURSIVE Flatten(_)
Flatten(ss) == IF ss = <<>> THEN <<>> ELSE Head(ss) \o Flatten(Tail(ss))

CeilDiv(a, b) == (a + b - 1) \div b

\* C2 -- safeBatchCommit puts every operation exactly once, in list order,
\* into ceil(n/450) batches; every batch but the last holds exactly 450
\* operations, the last between 1 and 450, none is empty; for n = 0 it
\* returns 0 and neither creates nor commits a batch.
C2_Chunking ==
    batchRun.status # "unset" =>
        LET n == Len(batchRun.operations)
            bs == batchRun.batches
        IN /\ Flatten(bs) = batchRun.operations
           /\ Len(bs) = CeilDiv(n, 450)
           /\ \A i \in 1..Len(bs) :
                 /\ i < Len(bs) => Len(bs[i]) = 450
                 /\ Len(bs[i]) >= 1 /\ Len(bs[i]) <= 450
           /\ batchRun.status = "returned" =>
                 /\ batchRun.ret = Len(bs)
                 /\ batchRun.committed = bs
           /\ n = 0 => /\ batchRun.status = "returned" /\ batchRun.ret = 0
                       /\ batchRun.created = 0 /\ batchRun.committed = <<>>

C2_Witness ==
    /\ batchRun.status = "returned"
    /\ Len(batchRun.operations) = 1000
    /\ Len(batchRun.batches) = 3
    /\ Len(batchRun.batches[3]) = 100


\* ==================== SPECIFICATION: cache lifetime, failing store ====================
\* User "101" owns at most one permanent record, possibly without its
\* label (so that a refresh has something to commit), and may hold a
\* whitelist grant whose record is missing.  Direct calls of
\* getUserActiveKeys arrive one after the other while time passes up to
\* the lifetime of a cache entry, and any store call may reject.
CacheKeyChoices ==
    {NoKeyDoc, KeyRec("101", TagOf("101"), FALSE, NullTime),
     KeyRec("101", NoTag, FALSE, NullTime)}
CacheGrantChoices ==
    {NoWhitelistDoc, [exists |-> TRUE, key |-> KeyB, discordTag |-> TagOf("101")]}

InitCache ==
    /\ keys \in {[k \in KeyIds |-> IF k = KeyA THEN a ELSE NoKeyDoc] : a \in CacheKeyChoices}
    /\ generated_keys = [k \in KeyIds |-> NoPendingDoc]
    /\ whitelist \in {[u \in Users |-> IF u = "101" THEN g ELSE NoWhitelistDoc] :
                        g \in CacheGrantChoices}
    /\ blacklist = {}
    /\ EmptyMemInit /\ NoTasksInit /\ NoCodecInit /\ NoBatchInit

CacheTicks == 5
CacheStarts == 3

NextCache ==
    \/ (/\ started < CacheStarts
        /\ NoCallRunning
        /\ \E t \in TaskIds, force \in BOOLEAN : Lookup(t, "101", force))
    \/ \E t \in TaskIds : RefreshNext(t)
    \/ \E t \in TaskIds : RefreshStoreError(t)
    \/ (now < StartTime + CacheTicks * TickStep /\ Tick(TickStep))

SpecCache == InitCache /\ [][NextCache]_vars

\* a direct call getUserActiveKeys(U, tag, false) arrives in frame t in this step
NonForcedCall(t) ==
    /\ CanStart(t)
    /\ started' = started + 1
    /\ task'[t].op = "lookup"
    /\ ~task'[t].force

\* the frames other than t are left as they were
OtherFramesKept(t) == \A s \in TaskIds \ {t} : task'[s] = task[s]

\* C11 -- a non-forced getUserActiveKeys returns the cached key set only
\* when an entry exists whose expires lies strictly after the current time;
\* with no entry, or with expires at or before the current time, it starts
\* a synchronous refresh instead and returns nothing from the cache.
C11_HardExpiry ==
    /\ [](\A t \in TaskIds :
            (task[t].op = "lookup" /\ task[t].outcome = "returned" /\ task[t].refreshes = 0)
            => /\ task[t].cacheAtReturn.present
               /\ task[t].cacheAtReturn.expires > task[t].calledAt
               /\ task[t].result = task[t].cacheAtReturn.keys)
    /\ [][\A t \in TaskIds :
            NonForcedCall(t) =>
                LET cached == userKeyCache[task'[t].userId] IN
                IF cached.present /\ cached.expires > now
                THEN /\ task'[t].pc = "done" /\ task'[t].outcome = "returned"
                     /\ task'[t].refreshes = 0
                     /\ task'[t].result = cached.keys
                ELSE /\ task'[t].pc = "rf_query" /\ task'[t].outcome = "none"
                     /\ task'[t].refreshes = 1 /\ ~task'[t].isBackground
                     /\ task'[t].ret = "get"
                     /\ task'[t].result = <<>>]_vars

\* a non-forced call met an entry at the very instant of its expiry and
\* returned what its synchronous refresh found
C11_Witness ==
    \E t \in TaskIds :
        /\ task[t].op = "lookup" /\ ~task[t].force /\ task[t].outcome = "returned"
        /\ task[t].refreshes = 1
        /\ task[t].cacheAtEntry.present
        /\ task[t].cacheAtEntry.expires = task[t].calledAt

\* a non-forced call was served from an entry in the last minute of its life
C11_WitnessHit ==
    \E t \in TaskIds :
        /\ task[t].op = "lookup" /\ ~task[t].force /\ task[t].outcome = "returned"
        /\ task[t].refreshes = 0
        /\ task[t].cacheAtReturn.expires - task[t].calledAt = TickStep


\* the refresh run by frame t fails in this step
RefreshFailed(t) == task[t].rfStatus = "running" /\ task'[t].rfStatus = "failed"

C12_WitnessCommit ==
    \E t \in TaskIds :
        /\ task[t].op = "lookup" /\ task[t].outcome = "thrown" /\ task[t].rfStatus = "failed"
        /\ task[t].updateOperations # <<>> /\ task[t].keySet # <<>>
        /\ ~task[t].whitelistDoc.exists /\ task[t].trips = 2
        /\ ~userKeyCache[task[t].userId].present

\* a refresh failed after a concurrent background refresh had renewed the entry
C12_WitnessConcurrent ==
    \E t \in TaskIds :
        /\ task[t].op = "lookup" /\ task[t].outcome = "thrown" /\ task[t].rfStatus = "failed"
        /\ userKeyCache[task[t].userId] # task[t].cacheAtEntry

\* a first refresh failed and the entry is still absent
C12_WitnessAbsent ==
    \E t \in TaskIds :
        /\ task[t].op = "lookup" /\ task[t].outcome = "thrown" /\ task[t].rfStatus = "failed"
        /\ ~task[t].cacheAtEntry.present
        /\ ~userKeyCache[task[t].userId].present

\* the background refresh run by frame s settles in this step
BackgroundSettles(s) ==
    /\ task[s].op = "bg" /\ task[s].rfStatus = "running"
    /\ task'[s].rfStatus \in {"ok", "failed"}

\* frame s starts a background refresh in this step
BackgroundStarts(s) ==
    /\ task[s].pc \in {"idle", "done"}
    /\ task'[s].op = "bg" /\ task'[s].pc = "rf_query"

\* C13 -- a non-forced getUserActiveKeys that starts a background refresh
\* on the soft-refresh path returns the cached key set in the same step;
\* when that background refresh ends, by success or by failure, it ends
\* quietly, touches no other call, and U has left backgroundRefreshQueue.
C13_BackgroundSwallowed ==
    [][/\ \A t \in TaskIds :
            (NonForcedCall(t) /\ \E s \in TaskIds \ {t} : BackgroundStarts(s))
            => /\ task'[t].pc = "done" /\ task'[t].outcome = "returned"
               /\ task'[t].result = userKeyCache[task'[t].userId].keys
       /\ \A s \in TaskIds :
            BackgroundSettles(s)
            => /\ task'[s].pc = "done"
               /\ task'[s].outcome = IF task'[s].rfStatus = "ok" THEN "returned" ELSE "swallowed"
               /\ task[s].userId \in backgroundRefreshQueue
               /\ task[s].userId \notin backgroundRefreshQueue'
               /\ OtherFramesKept(s)]_vars

\* a call returned the cached keys, the background refresh it started
\* failed, and the queue is empty again
C13_Witness ==
    \E t, s \in TaskIds :
        /\ task[t].op = "lookup" /\ task[t].outcome = "returned" /\ task[t].refreshes = 0
        /\ task[t].result # <<>>
        /\ task[s].op = "bg" /\ task[s].outcome = "swallowed"
        /\ task[s].startTime = task[t].calledAt
        /\ backgroundRefreshQueue = {}

\* the background refreshes of identity u that have not ended
BackgroundInFlight(u) ==
    {s \in TaskIds : task[s].op = "bg" /\ task[s].userId = u /\ task[s].pc \notin {"idle", "done"}}

\* the call arriving in frame t reaches refreshUserKeysBackground while
\* its identity is in the queue
QueuedSoftCall(t) ==
    /\ NonForcedCall(t)
    /\ LET cached == userKeyCache[task'[t].userId] IN
       /\ cached.present /\ cached.expires > now
       /\ cached.lastRefresh # 0 /\ now - cached.lastRefresh > CACHE_SOFT_REFRESH
    /\ task'[t].userId \in backgroundRefreshQueue

\* C14 -- at every moment at most one background refresh per identity is
\* in flight, and the queue holds exactly the identities that have one; a
\* call of refreshUserKeysBackground made while U is in the queue reads and
\* writes nothing in the store, starts and queues no refresh, and leaves U
\* in the queue; a background refresh only ever starts from a call that
\* found U outside the queue.
C14_OneBackground ==
    /\ [](\A u \in Users :
            /\ Cardinality(BackgroundInFlight(u)) <= 1
            /\ u \in backgroundRefreshQueue <=> BackgroundInFlight(u) # {})
    /\ [][/\ \A t \in TaskIds :
                QueuedSoftCall(t)
                => /\ backgroundRefreshQueue' = backgroundRefreshQueue
                   /\ storeVars' = storeVars
                   /\ OtherFramesKept(t)
                   /\ task'[t].queries = 0 /\ task'[t].trips = 0
                   /\ task'[t].pc = "done"
          /\ \A s \in TaskIds :
                BackgroundStarts(s)
                => /\ task'[s].userId \notin backgroundRefreshQueue
                   /\ \E t \in TaskIds \ {s} : NonForcedCall(t) /\ task'[t].userId = task'[s].userId]_vars

\* a call arrived while the background refresh of its identity was still
\* in flight, and returned from the cache
C14_Witness ==
    \E t, s \in TaskIds :
        /\ task[s].op = "bg" /\ task[s].pc \notin {"idle", "done"}
        /\ task[t].op = "lookup" /\ task[t].outcome = "returned" /\ task[t].refreshes = 0
        /\ task[t].userId = task[s].userId
        /\ task[t].calledAt > task[s].startTime
        /\ backgroundRefreshQueue = {task[s].userId}


\* the operations of the batches whose commit was rejected
UncommittedCount ==
    Cardinality({i \in 1..Len(batchRun.operations) : CeilDiv(i, BATCH_LIMIT) \in batchRun.failing})

\* C15 -- when the commit of any chunk fails, safeBatchCommit fails with a
\* BatchCommitFailed error that carries the number of uncommitted operations.
C15_BatchCommitFailed ==
    batchRun.status = "thrown" =>
        /\ batchRun.error.thrown
        /\ batchRun.error.name = "BatchCommitFailed"
        /\ batchRun.error.uncommitted = UncommittedCount

\* a call of three chunks failed because the commit of the second was rejected
C15_Witness ==
    /\ batchRun.status = "thrown" /\ batchRun.failing = {2}
    /\ Len(batchRun.batches) = 3
    /\ batchRun.error.name = "StoreError" /\ batchRun.error.uncommitted = NullTime

\* C16 -- with more than 450 operations, when the commit of one chunk is
\* rejected the call fails, yet the commit of every other chunk has been
\* issued, the operations of every chunk that was not rejected are in the
\* store, and none of a rejected chunk is: each chunk is all-or-nothing and
\* nothing is rolled back.
C16_PartialCommit ==
    (batchRun.status # "unset" /\ Len(batchRun.operations) > BATCH_LIMIT
        /\ batchRun.failing # {})
    => LET written == Range(Flatten(batchRun.committed)) IN
       /\ batchRun.status = "thrown"
       /\ batchRun.attempted = 1..Len(batchRun.batches)
       /\ \A i \in 1..Len(batchRun.operations) :
             batchRun.operations[i] \in written <=> CeilDiv(i, BATCH_LIMIT) \notin batchRun.failing
       /\ \A b \in 1..Len(batchRun.batches) :
             \/ Range(batchRun.batches[b]) \subseteq written
             \/ Range(batchRun.batches[b]) \cap written = {}

\* three chunks, the first rejected, the two after it committed
C16_Witness ==
    /\ batchRun.status = "thrown" /\ batchRun.failing = {1}
    /\ Len(batchRun.batches) = 3
    /\ batchRun.committed = SubSeq(batchRun.batches, 2, 3)


\* C18 -- a redeem_submit whose normalized token fails isValidKeyFormat is
\* refused with the format error before any store read or write has been
\* issued.
C18_FormatBeforeStore ==
    \A t \in TaskIds :
        (task[t].op = "redeem" /\ task[t].outcome = "bad_format")
        => task[t].queries = 0 /\ task[t].trips = 0

\* a malformed token was refused after the blacklist lookup had been served
C18_Witness ==
    \E t \in TaskIds :
        /\ task[t].op = "redeem" /\ task[t].outcome = "bad_format"
        /\ ~isValidKeyFormat(toUpperCase(trim(task[t].inputKey)))
        /\ task[t].queries = 1 /\ task[t].trips = 1
        /\ task[t].operations = <<>>

\* ==================== SPECIFICATION: refused redemptions ====================
\* Redemptions arrive one after the other.  KeyA is pending; KeyB is free,
\* or bound to "102" with or without its display label, or bound to a
\* record that names nobody; "102" may be blacklisted.
HolderChoices ==
    {NoKeyDoc, KeyRec("102", TagOf("102"), FALSE, NullTime),
     KeyRec("102", NoTag, FALSE, NullTime), KeyRec(Null, NoTag, FALSE, NullTime)}

InitReject ==
    /\ \E holder \in HolderChoices, granted \in BOOLEAN :
         /\ keys = [k \in KeyIds |-> IF k = KeyB THEN holder ELSE NoKeyDoc]
         /\ whitelist = [u \in Users |->
                      IF u = "101" /\ granted /\ holder = NoKeyDoc
                      THEN [exists |-> TRUE, key |-> KeyB, discordTag |-> TagOf("101")]
                      ELSE NoWhitelistDoc]
    /\ generated_keys = [k \in KeyIds |-> IF k = KeyA THEN PendingRecord(NullTime)
                                          ELSE NoPendingDoc]
    /\ blacklist \in {{}, {"102"}}
    /\ EmptyMemInit /\ NoTasksInit /\ NoCodecInit /\ NoBatchInit

RejectStarts == 2
RejectTicks == 1

\* with one handler at a time the refresh after a redemption always finds
\* the redeemed key, so the alias queries are never issued
NextReject ==
    \/ (/\ started < RejectStarts
        /\ AllQuiet
        /\ \E t \in TaskIds, u \in Users, keyInput \in RedeemInputs : RedeemSubmit(t, u, keyInput))
    \/ \E t \in TaskIds : RedeemNext(t)
    \/ \E t \in TaskIds, which \in {"userId", "whitelist"} : RefreshQuery(t, which)
    \/ \E t \in TaskIds : RefreshKeyDoc(t)
    \/ \E t \in TaskIds : RefreshCommit(t)
    \/ (now < StartTime + RejectTicks * COOLDOWN_DURATION /\ Tick(COOLDOWN_DURATION))

SpecReject == InitReject /\ [][NextReject]_vars

Refusals == {"blacklisted", "bad_format", "already_used", "not_found"}

\* the redeem_submit handler of frame t takes a step that ends before its commit
RedeemCheckStep(t) ==
    /\ task'[t] # task[t]
    /\ task'[t].op = "redeem"
    /\ task[t].pc \in {"idle", "done", "rd_blacklist", "rd_active", "rd_pending"}

\* C19 -- a redeem_submit that is refused (blacklisted identity, invalid
\* format, keys/K exists, no pending K) writes nothing: no step it takes up
\* to its refusal changes keys, generated_keys or any other collection,
\* the cache or the cooldowns; it has built no batch, run no refresh, and
\* issued each of its reads once.
C19_RejectWritesNothing ==
    /\ [](\A t \in TaskIds :
            /\ task[t].pc # "rf_alias"
            /\ (task[t].op = "redeem" /\ task[t].outcome \in Refusals)
               => /\ task[t].operations = <<>> /\ task[t].refreshes = 0
                  /\ task[t].queries = task[t].trips
                  /\ task[t].queries
                        = IF task[t].outcome \in {"blacklisted", "bad_format"} THEN 1
                          ELSE IF task[t].outcome = "already_used" THEN 2 ELSE 3)
    /\ [][\A t \in TaskIds :
            RedeemCheckStep(t)
            => /\ storeVars' = storeVars
               /\ userKeyCache' = userKeyCache
               /\ cooldowns' = cooldowns
               /\ backgroundRefreshQueue' = backgroundRefreshQueue]_vars

\* after a redemption by "101" that succeeded, a second one for the same
\* key was refused: the record, the cache entry and the cooldown it left
\* are those the first one made
C19_Witness ==
    \E t \in TaskIds :
        /\ task[t].op = "redeem" /\ task[t].outcome = "already_used"
        /\ task[t].inputKey = KeyA
        /\ keys[KeyA].exists /\ ~generated_keys[KeyA].exists
        /\ userKeyCache["101"].present

\* a blacklisted identity was refused after one read
C19_WitnessBlacklisted ==
    \E t \in TaskIds :
        /\ task[t].op = "redeem" /\ task[t].outcome = "blacklisted"
        /\ task[t].userId \in blacklist /\ task[t].queries = 1

\* a malformed token was refused while KeyA stayed pending
C19_WitnessFormat ==
    \E t \in TaskIds :
        /\ task[t].op = "redeem" /\ task[t].outcome = "bad_format"
        /\ generated_keys[KeyA].exists

\* a well-formed token that names neither a record nor a pending key was refused
C19_WitnessNotFound ==
    \E t \in TaskIds :
        /\ task[t].op = "redeem" /\ task[t].outcome = "not_found"
        /\ task[t].inputKey = KeyB /\ task[t].queries = 3

\* C20 -- the reply that refuses a redemption because keys/K exists names
\* the holder by the display label (usedByDiscord) or as "Unknown"; it
\* never contains the holder's raw userId.
C20_NoRawIdentity ==
    \A t \in TaskIds :
        (task[t].op = "redeem" /\ task[t].outcome = "already_used")
        => /\ task[t].shown.from \in {"usedByDiscord", "Unknown"}
           /\ task[t].shown.userId = Null

\* "101" asked for a key whose record has no label: the reply names "102"
C20_Witness ==
    \E t \in TaskIds :
        /\ task[t].op = "redeem" /\ task[t].outcome = "already_used"
        /\ task[t].userId = "101"
        /\ task[t].keyDoc.usedByDiscord = NoTag
        /\ task[t].keyDoc.userId = "102"
        /\ task[t].shown = [from |-> "userId", label |-> NoTag, userId |-> "102"]


\* ==================== SPECIFICATION: guarded handlers ====================
\* User "101" owns no key (with or without a whitelist grant whose record
\* is missing), one key or two; KeyA is pending while nobody owns it.
\* Redemptions and presses of the three guarded buttons by "101" arrive,
\* at most two handlers run at a time, and any call a handler awaits may
\* reject.
Bound(userId) == [KeyRec(userId, TagOf(userId), FALSE, NullTime) EXCEPT !.hwid = "h1"]

InitHandlers ==
    /\ \E owned \in 0..2, granted \in BOOLEAN :
         /\ keys = [k \in KeyIds |->
                      IF (k = KeyA /\ owned >= 1) \/ (k = KeyB /\ owned = 2)
                      THEN Bound("101") ELSE NoKeyDoc]
         /\ generated_keys = [k \in KeyIds |->
                      IF k = KeyA /\ owned = 0 THEN PendingRecord(NullTime) ELSE NoPendingDoc]
         /\ whitelist = [u \in Users |->
                      IF u = "101" /\ granted /\ owned = 0
                      THEN [exists |-> TRUE, key |-> KeyB, discordTag |-> TagOf("101")]
                      ELSE NoWhitelistDoc]
    /\ blacklist = {}
    /\ EmptyMemInit /\ NoTasksInit /\ NoCodecInit /\ NoBatchInit

HandlerStarts == 2
HandlerInputs == {KeyA, SubSeq(KeyA, 1, Len(KeyA) - 1)}
RunningFrames == {t \in TaskIds : task[t].pc \notin {"idle", "done"}}

NextHandlers ==
    \/ (/\ started < HandlerStarts
        /\ Cardinality(RunningFrames) <= 1
        /\ \E t \in TaskIds :
              \/ \E kind \in GuardedButtons : ButtonPressed(t, "101", kind)
              \/ \E keyInput \in HandlerInputs : RedeemSubmit(t, "101", keyInput))
    \/ \E t \in TaskIds : ButtonNext(t)
    \/ \E t \in TaskIds : ButtonCallRejects(t)
    \/ \E t \in TaskIds : RedeemNext(t)
    \/ \E t \in TaskIds : RedeemCallRejects(t)
    \/ \E t \in TaskIds : RefreshNext(t)
    \/ \E t \in TaskIds : RefreshStoreError(t)

SpecHandlers == InitHandlers /\ [][NextHandlers]_vars

GuardedOps == GuardedButtons \cup {"redeem"}
MarkerKey(f) == OperationKey(f.userId, f.op)

\* the guarded handler of frame t ends in this step
HandlerEnds(t) ==
    /\ task'[t].op \in GuardedOps /\ task'[t].pc = "done"
    /\ \/ CanStart(t) /\ started' = started + 1
       \/ task[t].pc \notin {"idle", "done"}

\* C17 -- for redeem_submit, getrole_start, getscript_start and
\* reset_start: an execution whose startOperation returned true holds its
\* marker while it runs and has removed it, and only it, in the step in
\* which the handler ends, whether it ends in success, in a business-rule
\* refusal or in a rejected store or platform call; an execution whose
\* startOperation returned false, or that was stopped by the cooldown,
\* leaves activeOperations as it is; no marker outlives its handler.
C17_MarkerCleared ==
    /\ [](\A t \in TaskIds :
            (task[t].op \in GuardedOps /\ task[t].pc \notin {"idle", "done"})
            => task[t].marker /\ MarkerKey(task[t]) \in DOMAIN activeOperations)
    /\ [](\A k \in DOMAIN activeOperations :
            \E t \in RunningFrames : task[t].op \in GuardedOps /\ MarkerKey(task[t]) = k)
    /\ [][\A t \in TaskIds :
            HandlerEnds(t) =>
                LET key == MarkerKey(task'[t]) IN
                IF task'[t].outcome \in {"in_progress", "cooldown"}
                THEN /\ activeOperations' = activeOperations
                     /\ task'[t].outcome = "in_progress" => key \in DOMAIN activeOperations'
                ELSE /\ task[t].marker
                     /\ key \in DOMAIN activeOperations
                     /\ key \notin DOMAIN activeOperations'
                     /\ \A k \in DOMAIN activeOperations \ {key} :
                           k \in DOMAIN activeOperations'
                           /\ activeOperations'[k] = activeOperations[k]]_vars

\* reset had read the keys of its user when a call it awaited rejected;
\* no marker is left
C17_Witness ==
    /\ \E t \in TaskIds :
          /\ task[t].op = "reset" /\ task[t].outcome = "error" /\ task[t].userKeys # <<>>
    /\ DOMAIN activeOperations = {}

\* a redemption and a getrole that ran side by side both ended in an error
C17_WitnessThrown ==
    /\ \E t \in TaskIds : task[t].op = "redeem" /\ task[t].outcome = "error"
    /\ \E t \in TaskIds : task[t].op = "getrole" /\ task[t].outcome = "error"
    /\ DOMAIN activeOperations = {}

\* getscript ended because its forced refresh failed
C17_WitnessScript ==
    \E t \in TaskIds :
        /\ task[t].op = "getscript" /\ task[t].outcome = "error"
        /\ task[t].rfStatus = "failed"
        /\ MarkerKey(task[t]) \notin DOMAIN activeOperations

\* a second press was refused while the first handler still runs and
\* still holds its marker
C17_WitnessRefused ==
    \E t, s \in TaskIds :
        /\ task[t].op = "getscript" /\ task[t].outcome = "in_progress"
        /\ task[s].op = "getscript" /\ task[s].userId = task[t].userId
        /\ task[s].pc \notin {"idle", "done"}
        /\ MarkerKey(task[s]) \in DOMAIN activeOperations

\* handlers ended in a business-rule refusal and in success, no marker is left
C17_WitnessEnded ==
    /\ \E t \in TaskIds : task[t].op = "getrole" /\ task[t].outcome = "has_role"
    /\ \E t \in TaskIds : task[t].op = "reset" /\ task[t].outcome = "success"
    /\ DOMAIN activeOperations = {}

\* the entry of the identity a call in frame t asks about, as the call finds it
EntryMet(t) == userKeyCache[task'[t].userId]

\* the call arriving in frame t is served from the cache in the same step,
\* with the key set cached at call time, and is not itself charged a store
\* call
ServedFromCache(t) ==
    /\ task'[t].pc = "done" /\ task'[t].outcome = "returned"
    /\ task'[t].result = EntryMet(t).keys
    /\ task'[t].queries = 0 /\ task'[t].trips = 0 /\ task'[t].refreshes = 0
    /\ storeVars' = storeVars
    /\ userKeyCache' = userKeyCache

\* the entry's lastRefresh lies more than CACHE_SOFT_REFRESH before now
OlderThanSoft(cached) == now - cached.lastRefresh > CACHE_SOFT_REFRESH

\* the step leaves every frame but t alone (no refresh started)
NoRefreshStarted(t) == OtherFramesKept(t) /\ backgroundRefreshQueue' = backgroundRefreshQueue

\* exactly one frame other than t starts a background refresh of t's identity
OneBackgroundStarted(t) ==
    \E s \in TaskIds \ {t} :
        /\ BackgroundStarts(s)
        /\ task'[s].userId = task'[t].userId /\ task'[s].tag = task'[t].tag
        /\ task'[s].isBackground /\ task'[s].queries = 2 /\ task'[s].trips = 1
        /\ \A r \in TaskIds \ {t, s} : task'[r] = task[r]
        /\ backgroundRefreshQueue' = backgroundRefreshQueue \cup {task'[t].userId}

\* C23 as stated -- getUserActiveKeys(U, tag, false) with a non-expired
\* entry returns the cached key set without awaiting a store call, and it
\* starts a background refresh if and only if the entry's lastRefresh is
\* more than CACHE_SOFT_REFRESH before the current time.
C23_SoftRefreshIff ==
    [][\A t \in TaskIds :
        (NonForcedCall(t) /\ EntryMet(t).present /\ EntryMet(t).expires > now)
        => /\ ServedFromCache(t)
           /\ IF OlderThanSoft(EntryMet(t)) THEN OneBackgroundStarted(t)
                                            ELSE NoRefreshStarted(t)]_vars

\* C23 -- getUserActiveKeys(U, tag, false) with a non-expired entry returns
\* exactly the key set cached at call time in the same step, without a
\* store call of its own; it starts a background refresh if and only if
\* the entry's lastRefresh is more than CACHE_SOFT_REFRESH before the
\* current time and U is not already in backgroundRefreshQueue; otherwise
\* the step starts nothing and issues no store call at all.
C23_SoftRefresh ==
    [][\A t \in TaskIds :
        (NonForcedCall(t) /\ EntryMet(t).present /\ EntryMet(t).expires > now)
        => /\ ServedFromCache(t)
           /\ IF /\ OlderThanSoft(EntryMet(t))
                 /\ task'[t].userId \notin backgroundRefreshQueue
              THEN OneBackgroundStarted(t)
              ELSE NoRefreshStarted(t)]_vars

\* a call met an entry exactly CACHE_SOFT_REFRESH old and started nothing,
\* and a later call met the same entry older than that and started a
\* background refresh
C23_Witness ==
    \E t, s \in TaskIds :
        /\ task[t].op = "lookup" /\ ~task[t].force /\ task[t].outcome = "returned"
        /\ task[t].refreshes = 0
        /\ task[s].op = "bg" /\ task[s].startTime = task[t].calledAt
        /\ task[t].prior.returned /\ task[t].prior.refreshes = 0
        /\ task[t].prior.calledAt = task[t].cacheAtReturn.lastRefresh + CACHE_SOFT_REFRESH

\* a call met a non-expired entry older than the threshold while the
\* background refresh of its identity was still queued
C23_WitnessQueued ==
    \E t, s \in TaskIds :
        /\ task[t].op = "lookup" /\ ~task[t].force /\ task[t].outcome = "returned"
        /\ task[t].refreshes = 0
        /\ task[t].calledAt - task[t].cacheAtReturn.lastRefresh > CACHE_SOFT_REFRESH
        /\ task[s].op = "bg" /\ task[s].pc \notin {"idle", "done"}
        /\ task[s].userId = task[t].userId
        /\ task[s].startTime < task[t].calledAt

\* ---- C24, C25, C26: what one refresh repairs and which queries it issues ----
\* C24 -- when refreshUserKeys(U, tag) returns, every record of its result
\* that the identity query found is stored with its usedByDiscord label
\* set, whitelist-flagged or not.
C24_LabelHealed ==
    [][\A t \in TaskIds : RefreshReturnedOk(t) =>
          LET f == task'[t] IN
          \A d \in Docs(f.userIdSnapshot) :
              d.id \in Range(f.result)
              => keys'[d.id].exists /\ keys'[d.id].usedByDiscord # NoTag]_vars

\* a single refresh returned a whitelist-flagged record of U that the
\* identity query found without a label, and the record still has none
C24_Witness ==
    \E t \in TaskIds :
        /\ started = 1
        /\ task[t].pc = "done" /\ task[t].rfStatus = "ok"
        /\ \E d \in Docs(task[t].userIdSnapshot) :
              /\ d.data.whitelisted /\ d.data.usedByDiscord = NoTag
              /\ d.id \in Range(task[t].result)
              /\ keys[d.id].usedByDiscord = NoTag

\* C25 -- when refreshUserKeys(U, tag) returns for an identity whose
\* whitelist grant names key K, keys/K is stored with whitelisted = true
\* and with userId and usedByDiscord set, whatever keys/K was before.
C25_GrantRepaired ==
    [][\A t \in TaskIds : RefreshReturnedOk(t) =>
          LET f == task'[t]
              K == f.whitelistDoc.key
          IN (f.whitelistDoc.exists /\ K # <<>>)
             => /\ keys'[K].exists
                /\ keys'[K].whitelisted
                /\ keys'[K].userId # Null
                /\ keys'[K].usedByDiscord # NoTag]_vars

\* a single refresh returned for an identity whose grant names a record
\* the identity query had already found, and the record is still not
\* whitelist-flagged
C25_Witness ==
    \E t \in TaskIds :
        /\ started = 1
        /\ task[t].pc = "done" /\ task[t].rfStatus = "ok"
        /\ task[t].whitelistDoc.exists
        /\ task[t].whitelistDoc.key \in Ids(task[t].userIdSnapshot)
        /\ task[t].whitelistDoc.key \in Range(task[t].result)
        /\ ~keys[task[t].whitelistDoc.key].whitelisted

\* the refresh of frame f has processed its first two reads
PastFirstReads(f) == f.rfStatus \in {"running", "ok"} /\ f.pc # "rf_query"

\* the refresh of frame f has issued the two alias queries
AliasIssued(f) == f.queries >= 4

\* the identity query's record d went into the key set when it was classified
IncludedOwned(f, d) == d.data.whitelisted \/ ~isKeyExpired(d.data, f.classifiedAt)

\* C26 as stated -- refreshUserKeys issues the alias queries if and only
\* if the identity query returned zero records and isBackground is false.
C26_AliasIffNoRecord ==
    \A t \in TaskIds :
        PastFirstReads(task[t])
        => (AliasIssued(task[t])
            <=> (task[t].userIdSnapshot = <<>> /\ ~task[t].isBackground))

\* C26 -- refreshUserKeys issues the alias queries (full tag and the part
\* before '#') if and only if no record returned by the identity query was
\* put into the key set (each was expired and not whitelist-flagged, or
\* there was none) and isBackground is false; a background refresh never
\* issues them.
C26_AliasFallback ==
    \A t \in TaskIds :
        PastFirstReads(task[t])
        => /\ AliasIssued(task[t])
              <=> /\ ~task[t].isBackground
                  /\ \A d \in Docs(task[t].userIdSnapshot) : ~IncludedOwned(task[t], d)
           /\ task[t].isBackground => task[t].queries <= 3

\* a refresh that is not a background refresh got an expired record from
\* the identity query and went on to the alias queries, which found a key
C26_Witness ==
    \E t \in TaskIds :
        /\ task[t].pc = "done" /\ task[t].rfStatus = "ok" /\ ~task[t].isBackground
        /\ task[t].userIdSnapshot # <<>>
        /\ AliasIssued(task[t])
        /\ task[t].tagSnapshot # <<>>
        /\ task[t].result # <<>>

\* a background refresh found no record by identity and stopped there
C26_WitnessBackground ==
    \E t \in TaskIds :
        /\ task[t].pc = "done" /\ task[t].rfStatus = "ok" /\ task[t].isBackground
        /\ task[t].userIdSnapshot = <<>>
        /\ task[t].queries = 2
        /\ \E k \in KeyIds : keys[k].exists /\ keys[k].usedByDiscord = task[t].tag

\* ==================== SPECIFICATION: cooldowns ====================
\* setCooldown and checkCooldown called directly, in any order, for two
\* identities and two durations, while time passes in steps just below, at
\* and just above one second.
CooldownDurations == {COOLDOWN_DURATION, COOLDOWN_DURATION \div 2}
CooldownSteps == {999, 1000, 1001}
CooldownSpan == 3000

\* nobody has called setCooldown for the identity yet
NeverSet == [set |-> FALSE, t |-> 0, d |-> 0]

\* setCooldown(userId, duration)
SetCooldownCall(userId, duration) ==
    /\ SetMem(setCooldown(Mem, userId, duration))
    /\ guard' = [op |-> "setCooldown", userId |-> userId, duration |-> duration,
                 ret |-> [onCooldown |-> FALSE, remaining |-> 0], at |-> now,
                 was |-> cooldowns[userId],
                 lastSet |-> [guard.lastSet EXCEPT ![userId] =
                                 [set |-> TRUE, t |-> now, d |-> duration]]]
    /\ UNCHANGED <<storeVars, now, started, codec, batchRun, issued>>

\* checkCooldown(userId, duration)
CheckCooldownCall(userId, duration) ==
    /\ guard' = [op |-> "checkCooldown", userId |-> userId, duration |-> duration,
                 ret |-> checkCooldown(cooldowns, userId, duration), at |-> now,
                 was |-> cooldowns[userId],
                 lastSet |-> guard.lastSet]
    /\ UNCHANGED <<storeVars, memVars, now, task, started, codec, batchRun, issued>>

InitCooldown ==
    /\ EmptyStoreInit /\ EmptyMemInit /\ NoCodecInit /\ NoBatchInit
    /\ task = [t \in TaskIds |-> IdleFrame]
    /\ started = 0
    /\ issued = <<>>
    /\ guard = [op |-> "none", userId |-> Null, duration |-> 0,
                ret |-> [onCooldown |-> FALSE, remaining |-> 0], at |-> 0,
                was |-> NullTime,
                lastSet |-> [u \in Users |-> NeverSet]]

NextCooldown ==
    \/ \E u \in Users, d \in CooldownDurations : SetCooldownCall(u, d)
    \/ \E u \in Users, d \in CooldownDurations : CheckCooldownCall(u, d)
    \/ \E d \in CooldownSteps : now + d <= StartTime + CooldownSpan /\ Tick(d)

SpecCooldown == InitCooldown /\ [][NextCooldown]_vars

\* r is the number of whole seconds that covers x milliseconds
CoversMs(r, x) == (r - 1) * 1000 < x /\ x <= r * 1000

\* what the last setCooldown of each identity asked for is what is stored
StoredAsSet ==
    \A u \in Users :
        IF guard.lastSet[u].set
        THEN cooldowns[u] = guard.lastSet[u].t + guard.lastSet[u].d
        ELSE cooldowns[u] = NullTime

\* C28 -- setCooldown(U, d) at time t stores t + d for U whatever was
\* stored before; until the next setCooldown(U), checkCooldown(U) at time
\* t' reports on-cooldown exactly when t' < t + d, with remaining the
\* number of seconds ceil((t + d - t') / 1000) >= 1, and reports clear
\* otherwise (and for an identity never set); checkCooldown changes no
\* state, and its duration argument has no influence on the result.
C28_Cooldown ==
    /\ [](StoredAsSet)
    /\ [](guard.op = "checkCooldown" =>
            LET ls == guard.lastSet[guard.userId]
                left == ls.t + ls.d - guard.at
            IN IF ls.set /\ guard.at < ls.t + ls.d
               THEN /\ guard.ret.onCooldown
                    /\ guard.ret.remaining >= 1
                    /\ CoversMs(guard.ret.remaining, left)
               ELSE ~guard.ret.onCooldown)
    /\ [][(guard' # guard /\ guard'.op = "checkCooldown")
            => /\ cooldowns' = cooldowns
               /\ UNCHANGED <<storeVars, userKeyCache, activeOperations,
                              backgroundRefreshQueue, now, task>>]_vars
    /\ [][(guard' # guard /\ guard'.op = "setCooldown")
            => /\ cooldowns'[guard'.userId] = now + guard'.duration
               /\ \A u \in Users \ {guard'.userId} : cooldowns'[u] = cooldowns[u]]_vars

\* a cooldown of 3000 ms was checked 2999 ms after it was set: one second
\* is reported although a single millisecond is left
C28_Witness ==
    /\ guard.op = "checkCooldown"
    /\ guard.lastSet[guard.userId].set
    /\ guard.lastSet[guard.userId].d = COOLDOWN_DURATION
    /\ guard.at - guard.lastSet[guard.userId].t = COOLDOWN_DURATION - 1
    /\ guard.ret.onCooldown /\ guard.ret.remaining = 1
    /\ guard.duration # COOLDOWN_DURATION

\* a later setCooldown with the shorter duration lowered the stored time
C28_WitnessLowered ==
    /\ guard.op = "setCooldown"
    /\ guard.was # NullTime
    /\ guard.was > cooldowns[guard.userId]
    /\ cooldowns[guard.userId] = guard.at + guard.duration

\* a check made at the very instant the cooldown ends reports clear
C28_WitnessEnd ==
    /\ guard.op = "checkCooldown"
    /\ guard.lastSet[guard.userId].set
    /\ guard.at = guard.lastSet[guard.userId].t + guard.lastSet[guard.userId].d
    /\ ~guard.ret.onCooldown

\* ==================== CLEANUP TASKS ====================
\* the literals of the periodic cleanup: the age at which a marker is
\* stale, and the period of the setInterval
STALE_OPERATION_AGE == 300000
CLEANUP_INTERVAL == 300000

\* expiry < now
CooldownStale(expiry) == expiry < now

\* a plausible slip: the grace period is left out
CacheStale_NoGrace(data) == data.expires < now

\* data.expires < now - (CACHE_DURATION * 2)
CacheStale(data) == data.expires < now - (CACHE_DURATION * 2)

\* now - timestamp > 300000
OperationStale(timestamp) == now - timestamp > STALE_OPERATION_AGE

\* the setInterval callback: three scans, each deleting the stale entries
cleanup(m) ==
    [m EXCEPT !.cd = [u \in Users |->
                        IF m.cd[u] # NullTime /\ CooldownStale(m.cd[u]) THEN NullTime ELSE m.cd[u]],
              !.cache = [u \in Users |->
                        IF m.cache[u].present /\ CacheStale(m.cache[u]) THEN NoEntry ELSE m.cache[u]],
              !.ao = [k \in {k2 \in DOMAIN m.ao : ~OperationStale(m.ao[k2])} |-> m.ao[k]]]

\* one run of the callback
Cleanup ==
    /\ SetMem(cleanup(Mem))
    /\ guard' = [op |-> "cleanup", at |-> now,
                 cleanedCooldowns |->
                     Cardinality({u \in Users : cooldowns[u] # NullTime
                                                /\ CooldownStale(cooldowns[u])}),
                 cleanedCache |->
                     Cardinality({u \in Users : userKeyCache[u].present
                                                /\ CacheStale(userKeyCache[u])}),
                 cleanedOperations |->
                     Cardinality({k \in DOMAIN activeOperations :
                                     OperationStale(activeOperations[k])})]
    /\ UNCHANGED <<storeVars, now, started, codec, batchRun, issued>>

\* ==================== SPECIFICATION: periodic cleanup ====================
\* At the start both identities are looked up (filling the cache), put on
\* cooldown and given in-flight markers; then time passes in half
\* periods of the cleanup, at last followed by the length of a cooldown,
\* while the callback may run at any moment (also between the store calls
\* of a refresh) and identity "101" keeps asking for its keys.
SweepHalfPeriods == 7
SweepStarts == 3
HalfPeriod == CLEANUP_INTERVAL \div 2

\* setCooldown(userId) as the handlers call it
CooldownStarted(userId) ==
    /\ SetMem(setCooldown(Mem, userId, COOLDOWN_DURATION))
    /\ UNCHANGED <<storeVars, now, started, obsVars>>

\* startOperation(userId, 'redeem') of a handler that then stays in flight
MarkerSet(userId) ==
    /\ OperationKey(userId, "redeem") \notin DOMAIN activeOperations
    /\ activeOperations' = startOperation(activeOperations, userId, "redeem").ao
    /\ UNCHANGED <<storeVars, userKeyCache, cooldowns, backgroundRefreshQueue,
                   now, task, started, obsVars>>

Elapse(d) ==
    /\ now' = now + d
    /\ UNCHANGED <<storeVars, memVars, task, started, obsVars>>

InitSweep ==
    /\ EmptyStoreInit /\ EmptyMemInit /\ NoTasksInit /\ NoCodecInit /\ NoBatchInit

NextSweep ==
    \/ (/\ now = StartTime
        /\ \E u \in Users : CooldownStarted(u))
    \/ (/\ now = StartTime
        /\ \E u \in Users : MarkerSet(u))
    \/ (/\ started < SweepStarts
        /\ NoCallRunning
        /\ \E t \in TaskIds, u \in Users :
              /\ u = "101" \/ now = StartTime
              /\ Lookup(t, u, now = StartTime))
    \/ \E t \in TaskIds : QueryNext(t)
    \/ Cleanup
    \/ (/\ AllQuiet
        /\ (now - StartTime) % HalfPeriod = 0
        /\ now + HalfPeriod <= StartTime + SweepHalfPeriods * HalfPeriod
        /\ Elapse(HalfPeriod))
    \/ (/\ AllQuiet
        /\ (now - StartTime) % HalfPeriod = 0
        /\ Elapse(COOLDOWN_DURATION))

SpecSweep == InitSweep /\ [][NextSweep]_vars

\* the callback runs in this step
CleanupRuns == guard' # guard /\ guard'.op = "cleanup"

\* C27 -- one run of the periodic cleanup at time now removes exactly the
\* cooldown entries with expiry < now, the cache entries with
\* expires < now - 2 * CACHE_DURATION and the activeOperations markers
\* with now - timestamp > 300000 ms; every other entry of the three maps
\* is left as it was, and backgroundRefreshQueue, the store, the clock and
\* every call in flight are untouched.
C27_Cleanup ==
    [][CleanupRuns =>
        /\ \A u \in Users :
              /\ cooldowns'[u] = IF cooldowns[u] # NullTime /\ cooldowns[u] < now
                                 THEN NullTime ELSE cooldowns[u]
              /\ userKeyCache'[u] =
                    IF userKeyCache[u].present
                       /\ userKeyCache[u].expires < now - 2 * CACHE_DURATION
                    THEN NoEntry ELSE userKeyCache[u]
        /\ DOMAIN activeOperations' =
              {k \in DOMAIN activeOperations : ~(now - activeOperations[k] > 300000)}
        /\ \A k \in DOMAIN activeOperations' : activeOperations'[k] = activeOperations[k]
        /\ backgroundRefreshQueue' = backgroundRefreshQueue
        /\ UNCHANGED <<storeVars, now, task, started>>]_vars

\* a run of the callback removed one cache entry and kept the other,
\* which is exactly 2 * CACHE_DURATION past its expiry
C27_Witness ==
    /\ guard.op = "cleanup" /\ guard.at = now
    /\ guard.cleanedCache = 1
    /\ \E u, v \in Users :
          /\ ~userKeyCache[u].present
          /\ userKeyCache[v].present
          /\ userKeyCache[v].expires = now - 2 * CACHE_DURATION

\* a run of the callback kept both markers, exactly 300000 ms old
C27_WitnessMarker ==
    /\ guard.op = "cleanup" /\ guard.at = now
    /\ guard.cleanedOperations = 0
    /\ Cardinality(DOMAIN activeOperations) = 2
    /\ \A k \in DOMAIN activeOperations : now - activeOperations[k] = STALE_OPERATION_AGE

\* a later run removed both markers while a background refresh was queued
C27_WitnessQueue ==
    /\ guard.op = "cleanup" /\ guard.at = now
    /\ guard.cleanedOperations = 2
    /\ activeOperations = << >>
    /\ backgroundRefreshQueue # {}

\* a run of the callback kept the cooldown that ends at that very instant
\* and removed nothing
C27_WitnessCooldown ==
    /\ guard.op = "cleanup" /\ guard.at = now
    /\ guard.cleanedCooldowns = 0
    /\ \E u \in Users : cooldowns[u] = now

\* ==================== SPECIFICATION: redemption of one pending key ====================
\* KeyA is pending, permanent or for PendingDays days.  Both identities
\* submit it, as issued or as typed, one after the other or while the
\* other handler is still running; any awaited call may reject.
RaceStarts == 2
RaceTicks == 1
RaceInputs == {KeyA, AsTyped(KeyA)}

InitRace ==
    /\ keys = [k \in KeyIds |-> NoKeyDoc]
    /\ \E days \in {NullTime, PendingDays} :
         generated_keys = [k \in KeyIds |-> IF k = KeyA THEN PendingRecord(days)
                                            ELSE NoPendingDoc]
    /\ whitelist = [u \in Users |-> NoWhitelistDoc]
    /\ blacklist = {}
    /\ EmptyMemInit /\ NoTasksInit /\ NoCodecInit /\ NoBatchInit

NextRace ==
    \/ (/\ started < RaceStarts
        /\ Cardinality(RunningFrames) < 2
        /\ \E t \in TaskIds, u \in Users, keyInput \in RaceInputs : RedeemSubmit(t, u, keyInput))
    \/ \E t \in TaskIds : RedeemNext(t)
    \/ \E t \in TaskIds : RedeemCallRejects(t)
    \/ \E t \in TaskIds : QueryNext(t)
    \/ (now < StartTime + RaceTicks * COOLDOWN_DURATION /\ Tick(COOLDOWN_DURATION))

SpecRace == InitRace /\ [][NextRace]_vars

\* the handler of frame t has read the pending record and builds its batch
RedeemBuilds(t) == task[t].pc = "rd_pending" /\ task'[t].pc = "rd_commit"

\* the batch of the handler of frame t is committed in this step
RedeemCommits(t) == task[t].pc = "rd_commit" /\ task'[t].pc = "rd_notify"

\* C30 -- a redeem_submit of token K by U with tag T that succeeds commits
\* one batch that leaves keys/K with userId = U, usedByDiscord = T, hwid
\* empty, hwidLimit = 1, whitelisted = false and expiresAt = null for a
\* pending record without expiresInDays, otherwise the time the batch was
\* built + expiresInDays * 86400000 ms, and leaves no generated_keys/K;
\* keys/K and generated_keys/K never exist together, a pending record
\* disappears only in a step that leaves keys/K in place, and a commit
\* that rejects changes neither.
C30_RedeemAtomic ==
    /\ [](\A k \in KeyIds : ~(keys[k].exists /\ generated_keys[k].exists))
    /\ [][/\ \A t \in TaskIds :
               RedeemBuilds(t) =>
                   LET K == task[t].inputKey
                       days == generated_keys[K].expiresInDays
                       rec == task'[t].operations[1].data
                   IN /\ task'[t].operations =
                            <<OpSet("keys", K, rec), OpDelete("generated_keys", K)>>
                      /\ rec.userId = task[t].userId
                      /\ rec.usedByDiscord = task[t].tag
                      /\ rec.hwid = "" /\ rec.hwidLimit = 1 /\ ~rec.whitelisted
                      /\ rec.expiresAt = IF days = NullTime THEN NullTime
                                         ELSE now + days * 86400000
          /\ \A t \in TaskIds :
               RedeemCommits(t) =>
                   LET K == task[t].inputKey IN
                   /\ keys'[K] = task[t].operations[1].data
                   /\ keys'[K].exists
                   /\ ~generated_keys'[K].exists
                   /\ \A k \in KeyIds \ {K} :
                         keys'[k] = keys[k] /\ generated_keys'[k] = generated_keys[k]
          /\ \A k \in KeyIds :
               (generated_keys[k].exists /\ ~generated_keys'[k].exists)
               => /\ ~keys[k].exists /\ keys'[k].exists
                  /\ \E t \in TaskIds : RedeemCommits(t) /\ task[t].inputKey = k
          /\ (\A t \in TaskIds : ~RedeemCommits(t)) => UNCHANGED storeVars]_vars

\* a redemption of the timed pending key was reported as a success some
\* time after its batch was built: the record expires PendingDays days
\* after the time the batch was built
C30_Witness ==
    \E t \in TaskIds :
        /\ ReportedSuccess(t)
        /\ task[t].inputKey = KeyA
        /\ ~generated_keys[KeyA].exists
        /\ keys[KeyA].userId = task[t].userId
        /\ keys[KeyA].usedByDiscord = task[t].tag
        /\ keys[KeyA].expiresAt = task[t].calledAt + PendingDays * DAY_MS
        /\ now > task[t].calledAt

\* a redemption of the permanent pending key succeeded
C30_WitnessPermanent ==
    \E t \in TaskIds :
        /\ ReportedSuccess(t)
        /\ keys[KeyA] = RedeemedKeyRecord(task[t].userId, task[t].tag, PendingRecord(NullTime))
        /\ ~generated_keys[KeyA].exists

\* the commit of a redemption was rejected: the key is still pending
C30_WitnessRejected ==
    \E t \in TaskIds :
        /\ task[t].op = "redeem" /\ task[t].outcome = "error"
        /\ task[t].operations # <<>>
        /\ generated_keys[KeyA].exists /\ ~keys[KeyA].exists

\* ==================== SPECIFICATION: invalidation ====================
\* Identity "101" redeems the pending KeyA, whose handler calls
\* invalidateUserCache after its commit, while forced calls of
\* getUserActiveKeys for the same identity come and go (at most two calls
\* run at a time); time may pass, and the reads of any refresh may reject.
InvalidateStarts == 2
InvalidateTicks == 1

InitInvalidate ==
    /\ keys = [k \in KeyIds |-> NoKeyDoc]
    /\ generated_keys = [k \in KeyIds |-> IF k = KeyA THEN PendingRecord(NullTime)
                                          ELSE NoPendingDoc]
    /\ whitelist = [u \in Users |-> NoWhitelistDoc]
    /\ blacklist = {}
    /\ EmptyMemInit /\ NoTasksInit /\ NoCodecInit /\ NoBatchInit

NextInvalidate ==
    \/ (/\ started < InvalidateStarts
        /\ \A s \in TaskIds : task[s].op # "redeem"
        /\ \E t \in TaskIds : RedeemSubmit(t, "101", KeyA))
    \/ (/\ started < InvalidateStarts
        /\ Cardinality(RunningFrames) < 2
        /\ \E t \in TaskIds : Lookup(t, "101", TRUE))
    \/ \E t \in TaskIds : RedeemNext(t)
    \/ \E t \in TaskIds : QueryNext(t)
    \/ \E t \in TaskIds : RefreshStoreError(t)
    \/ (now < StartTime + InvalidateTicks * TickStep /\ Tick(TickStep))

SpecInvalidate == InitInvalidate /\ [][NextInvalidate]_vars

\* the refresh awaited by the invalidateUserCache of frame t settles in
\* this step, and the call returns to its handler
InvalidateReturns(t) ==
    /\ task[t].ret = "invalidate" /\ task[t].rfStatus = "running"
    /\ task'[t].rfStatus \in {"ok", "failed"}

\* after the step no refresh of the identity of frame t is in flight
NoRefreshLeft(t) ==
    \A s \in TaskIds \ {t} :
        ~(task'[s].userId = task[t].userId /\ task'[s].rfStatus = "running")

\* the entry that the refresh of frame t has just written
OwnEntry(t) ==
    [present |-> TRUE, keys |-> task'[t].result,
     expires |-> now + CACHE_DURATION, lastRefresh |-> now]

\* C21 as stated -- invalidateUserCache never throws, and when it returns
\* with no other refresh of U in flight the cache holds the entry its own
\* refresh computed from reads made after the removal, or no entry at all.
C21_FreshOrAbsent ==
    [][\A t \in TaskIds :
        (InvalidateReturns(t) /\ NoRefreshLeft(t))
        => /\ task'[t].outcome = "success"
           /\ IF task'[t].rfStatus = "ok"
              THEN userKeyCache'[task[t].userId] = OwnEntry(t)
              ELSE ~userKeyCache'[task[t].userId].present]_vars

\* C21 -- invalidateUserCache never throws (its handler goes on as after a
\* success, whatever the refresh did) and removes the entry of U before
\* its refresh reads the store.  When it returns with no other refresh of
\* U in flight: after a successful refresh the cache holds the entry that
\* refresh computed from reads made after the removal (here: the redeemed
\* key); after a failed refresh it holds no entry, or an entry that some
\* other refresh of U wrote while the call was running (an entry stamped
\* no earlier than the call).
C21_InvalidateReturn ==
    [][\A t \in TaskIds :
        /\ InvalidateReturns(t) => task'[t].outcome = "success"
        /\ (InvalidateReturns(t) /\ NoRefreshLeft(t))
           => IF task'[t].rfStatus = "ok"
              THEN /\ userKeyCache'[task[t].userId] = OwnEntry(t)
                   /\ task'[t].result = <<task[t].inputKey>>
                   /\ ~task[t].cacheAtEntry.present
              ELSE \/ ~userKeyCache'[task[t].userId].present
                   \/ userKeyCache'[task[t].userId].lastRefresh >= task[t].startTime]_vars

\* the handler invalidated an entry written some time before, its refresh
\* succeeded, and the cache holds the redeemed key
C21_Witness ==
    \E t \in TaskIds :
        /\ task[t].op = "redeem" /\ task[t].outcome = "success" /\ task[t].rfStatus = "ok"
        /\ userKeyCache["101"].present
        /\ userKeyCache["101"].keys = <<KeyA>>
        /\ userKeyCache["101"].lastRefresh = task[t].startTime
        /\ \E s \in TaskIds \ {t} :
              /\ task[s].op = "lookup" /\ task[s].rfStatus = "ok"
              /\ task[s].result = <<>>
              /\ task[s].startTime < task[t].startTime
        /\ AllQuiet

\* the refresh of the invalidation failed and nothing is cached
C21_WitnessAbsent ==
    \E t \in TaskIds :
        /\ task[t].op = "redeem" /\ task[t].outcome = "success" /\ task[t].rfStatus = "failed"
        /\ ~userKeyCache["101"].present
        /\ AllQuiet

\* a lookup that had read the store before the redemption was committed
\* finished while the invalidation was running; the refresh of the
\* invalidation then failed, and the cache says that "101" has no key
C21_WitnessStale ==
    \E t, s \in TaskIds :
        /\ task[t].op = "redeem" /\ task[t].outcome = "success" /\ task[t].rfStatus = "failed"
        /\ task[s].op = "lookup" /\ task[s].rfStatus = "ok" /\ task[s].result = <<>>
        /\ keys[KeyA].exists /\ keys[KeyA].userId = "101"
        /\ userKeyCache["101"].present
        /\ userKeyCache["101"].keys = <<>>
        /\ AllQuiet

\* ==================== SPECIFICATION: life of a cache entry ====================
\* Identity "101" owns KeyA, which its whitelist grant names as well;
\* "102" owns nothing and is looked up at the start only.  Calls of
\* getUserActiveKeys (forced or not) and of invalidateUserCache (as the
\* handlers make it after their commit) arrive one after the other, the
\* reads of a refresh may reject, the cleanup runs between the calls, and
\* time passes in two halves of a cache lifetime and then in whole ones.
EntryStarts == 2
EntryTicks == 4

\* a handler calls invalidateUserCache(userId, tag)
InvalidateCall(t, userId) ==
    /\ CanStart(t)
    /\ SetMem(invalidateUserCache([Mem EXCEPT !.task[t] = NewFrame("invalidate", userId)], t))
    /\ started' = started + 1
    /\ UNCHANGED <<storeVars, now, obsVars>>

InitEntry ==
    /\ keys = [k \in KeyIds |-> IF k = KeyA THEN KeyRec("101", TagOf("101"), TRUE, NullTime)
                                ELSE NoKeyDoc]
    /\ generated_keys = [k \in KeyIds |-> NoPendingDoc]
    /\ whitelist = [u \in Users |->
                      IF u = "101" THEN [exists |-> TRUE, key |-> KeyA, discordTag |-> TagOf("101")]
                      ELSE NoWhitelistDoc]
    /\ blacklist = {}
    /\ EmptyMemInit /\ NoTasksInit /\ NoCodecInit /\ NoBatchInit

NextEntry ==
    \/ (/\ started < EntryStarts
        /\ NoCallRunning
        /\ \E t \in TaskIds, u \in Users, force \in BOOLEAN :
              /\ u = "101" \/ (force /\ now = StartTime)
              /\ Lookup(t, u, force))
    \/ (/\ started < EntryStarts
        /\ NoCallRunning
        /\ \E t \in TaskIds : InvalidateCall(t, "101"))
    \/ \E t \in TaskIds : QueryNext(t)
    \/ \E t \in TaskIds : RefreshStoreError(t)
    \/ (NoCallRunning /\ Cleanup)
    \/ (/\ now < StartTime + CACHE_DURATION
        /\ Elapse(HalfPeriod))
    \/ (/\ now >= StartTime + CACHE_DURATION
        /\ now + CACHE_DURATION <= StartTime + EntryTicks * CACHE_DURATION
        /\ Elapse(CACHE_DURATION))

SpecEntry == InitEntry /\ [][NextEntry]_vars

\* the list has no key twice
DuplicateFree(ks) == \A i, j \in 1..Len(ks) : ks[i] = ks[j] => i = j

\* C29 -- every cache entry was written whole by a refreshUserKeys that
\* completed successfully: its keys are the duplicate-free list that
\* refresh returned, and expires = lastRefresh + CACHE_DURATION; the entry
\* of an identity changes only in the step in which a refresh of that
\* identity returns (to the entry that refresh computed, stamped with the
\* current time) or by being deleted (invalidateUserCache, the cleanup).
C29_EntryWritten ==
    /\ [](\A u \in Users :
            IF userKeyCache[u].present
            THEN /\ userKeyCache[u].expires = userKeyCache[u].lastRefresh + CACHE_DURATION
                 /\ userKeyCache[u].lastRefresh <= now
                 /\ DuplicateFree(userKeyCache[u].keys)
            ELSE userKeyCache[u] = NoEntry)
    /\ [][\A u \in Users :
            userKeyCache'[u] # userKeyCache[u]
            => \/ /\ userKeyCache'[u] = NoEntry
                  /\ \/ CleanupRuns
                     \/ \E t \in TaskIds :
                           /\ task'[t].op = "invalidate" /\ task'[t].userId = u
                           /\ task'[t].pc = "rf_query" /\ task'[t].calledAt = now
                           /\ task'[t] # task[t]
               \/ \E t \in TaskIds :
                     /\ RefreshReturnedOk(t)
                     /\ task'[t].userId = u
                     /\ userKeyCache'[u] =
                           [present |-> TRUE, keys |-> task'[t].result,
                            expires |-> now + CACHE_DURATION, lastRefresh |-> now]]_vars

\* an entry holding the key that the identity query and the whitelist
\* grant both name was served from the cache, later replaced by a
\* background refresh, and is now the only entry
C29_Witness ==
    \E t, s \in TaskIds :
        /\ task[t].op = "lookup" /\ task[t].outcome = "returned" /\ task[t].refreshes = 0
        /\ task[t].result = <<KeyA>>
        /\ task[s].op = "bg" /\ task[s].rfStatus = "ok"
        /\ userKeyCache["101"].present
        /\ userKeyCache["101"].keys = <<KeyA>>
        /\ userKeyCache["101"].lastRefresh > task[t].calledAt
        /\ ~userKeyCache["102"].present

\* the cleanup deleted an entry
C29_WitnessCleaned ==
    /\ guard.op = "cleanup" /\ guard.at = now /\ guard.cleanedCache > 0

\* invalidateUserCache deleted an entry and its refresh failed
C29_WitnessInvalidated ==
    \E t \in TaskIds :
        /\ task[t].op = "invalidate" /\ task[t].rfStatus = "failed"
        /\ ~userKeyCache[task[t].userId].present
        /\ \E u \in Users : userKeyCache[u].present /\ userKeyCache[u].lastRefresh < task[t].calledAt

\* ==================== SpecCommands: commit, then invalidate ====================
\* One identity's records are changed by one command or redemption at a
\* time: a lookup, then a command, then a lookup, each arriving when the
\* one before and everything it set off has ended.
CommandStarts == 3
CommandTicks == 2
HwidLimits == {2}
MemberLists == {<<"101">>, <<"102", "101">>}

\* "101" may own the redeemed KeyA and may hold a whitelist grant (whose key
\* record may be missing); a store without a record of "101" may hold KeyA
\* as a pending key
InitCommands ==
    /\ \E owned \in BOOLEAN, granted \in BOOLEAN, healed \in BOOLEAN,
          days \in {0, NullTime, PendingDays} :
         LET grantKey == IF owned THEN KeyB ELSE KeyA IN
         /\ healed \/ granted
         /\ days = 0 \/ (~owned /\ ~granted)
         /\ keys = [k \in KeyIds |->
                      IF k = KeyA /\ owned THEN KeyRec("101", TagOf("101"), FALSE, NullTime)
                      ELSE IF k = grantKey /\ granted /\ healed
                      THEN WhitelistKeyRecord("101", TagOf("101"))
                      ELSE NoKeyDoc]
         /\ generated_keys = [k \in KeyIds |->
                                IF k = KeyA /\ days # 0 THEN PendingRecord(days)
                                ELSE NoPendingDoc]
         /\ whitelist = [u \in Users |->
                           IF u = "101" /\ granted
                           THEN WhitelistGrant(TagOf("101"), grantKey)
                           ELSE NoWhitelistDoc]
    /\ blacklist = {}
    /\ EmptyMemInit /\ NoTasksInit /\ NoCodecInit /\ NoBatchInit

CommandNext(t) ==
    \/ WhitelistAddChecked(t)
    \/ WhitelistRemoveChecked(t)
    \/ RemoveKeyWhitelistRead(t)
    \/ SyncVipResumed(t)
    \/ CommandCommit(t)
    \/ CommandNotified(t)
    \/ CommandCallRejects(t)

NextCommands ==
    \/ (/\ AllQuiet /\ started < CommandStarts /\ started % 2 = 0
        /\ \E t \in TaskIds, u \in Users, force \in BOOLEAN : Lookup(t, u, force))
    \/ (/\ AllQuiet /\ started < CommandStarts /\ started % 2 = 1
        /\ \E t \in TaskIds :
              \/ (FreshKeys # {} /\ WhitelistAdd(t, "101"))
              \/ WhitelistRemove(t, "101")
              \/ BlacklistAdd(t, "101")
              \/ RemoveKey(t, "101")
              \/ \E newLimit \in HwidLimits : SetHwidLimit(t, "101", newLimit)
              \/ \E ms \in MemberLists :
                    Len(ms) <= Cardinality(FreshKeys) /\ SyncVip(t, ms)
              \/ RedeemSubmit(t, "101", KeyA))
    \/ \E t \in TaskIds : CommandNext(t)
    \/ \E t \in TaskIds : BlacklistNext(t)
    \/ \E t \in TaskIds : RedeemNext(t)
    \/ \E t \in TaskIds : RedeemCallRejects(t)
    \/ \E t \in TaskIds : RefreshNext(t)
    \/ \E t \in TaskIds : RefreshStoreError(t)
    \/ (now < StartTime + CommandTicks * TickStep /\ Tick(TickStep))

SpecCommands == InitCommands /\ [][NextCommands]_vars

\* the operations that change the key records of their target
KeyChangingOps == {"whitelistAdd", "whitelistRemove", "blacklistAdd", "removekey",
                   "sethwidlimit", "syncvip", "redeem"}

\* frame t enters invalidateUserCache in this step
InvalidateEntered(t) ==
    /\ task'[t].op \in KeyChangingOps
    /\ task'[t].ret = "invalidate" /\ task'[t].pc = "rf_query"
    /\ task[t].pc # "rf_query"

\* the store after this step
StoreAfter == [keys |-> keys', generated_keys |-> generated_keys',
               whitelist |-> whitelist', blacklist |-> blacklist']

\* the writes of a batch are in the store: committing them again succeeds
\* and changes nothing
InEffect(st, operations) ==
    /\ operations # <<>>
    /\ LET r == safeBatchCommit(st, operations) IN r.ok /\ r.store = st

\* the keys the store holds for an identity: its unexpired records and the
\* key its whitelist grant names
StoredKeySet(userId) ==
    {k \in KeyIds : /\ keys[k].exists /\ keys[k].userId = userId
                    /\ ~isKeyExpired(keys[k], now)}
      \cup (IF whitelist[userId].exists /\ whitelist[userId].key # <<>>
            THEN {whitelist[userId].key} ELSE {})

\* a lookup that follows a command has returned (the third call or a later one)
FollowingLookup(t) ==
    LookupReturned(t) /\ ~task[t].force /\ started >= 3

\* C22 -- each of whitelist add, whitelist remove, blacklist add, removekey,
\* sethwidlimit, syncvip and redeem_submit enters invalidateUserCache for
\* its target only when the writes of its batch are in the store, and with
\* no other operation on the identity under way a non-forced
\* getUserActiveKeys that follows returns the key set the store then holds
\* for the target.
C22_CommitThenInvalidate ==
    /\ [][\A t \in TaskIds :
            InvalidateEntered(t) =>
                /\ InEffect(StoreAfter, task[t].operations)
                /\ ~userKeyCache'[task'[t].userId].present]_vars
    /\ [](\A t \in TaskIds :
            FollowingLookup(t) => Range(task[t].result) = StoredKeySet(task[t].userId))

\* /whitelist add ran on a store that held only a pending key: the lookup
\* that follows is served from the entry the invalidation wrote and
\* returns the new whitelist key
C22_Witness ==
    \E t \in TaskIds :
        /\ FollowingLookup(t) /\ task[t].userId = "101"
        /\ task[t].refreshes = 0
        /\ generated_keys[KeyA].exists
        /\ task[t].result = <<KeyB>>
        /\ keys[KeyB].whitelisted /\ whitelist["101"].key = KeyB

\* /removekey has ended: its forced lookup found keys, the batch deleted
\* them, and the entry the invalidation wrote is empty
C22_WitnessRemoved ==
    \E t \in TaskIds :
        /\ task[t].op = "removekey" /\ task[t].pc = "done" /\ task[t].outcome = "success"
        /\ task[t].userKeys # <<>>
        /\ userKeyCache["101"].present /\ userKeyCache["101"].keys = <<>>
        /\ StoredKeySet("101") = {}

\* the refresh of the invalidation of /sethwidlimit failed: the entry is
\* gone and the lookup that follows goes to the store
C22_WitnessAbsent ==
    \E t \in TaskIds :
        /\ FollowingLookup(t) /\ task[t].userId = "101"
        /\ task[t].refreshes = 1
        /\ task[t].calledAt = StartTime
        /\ \E k \in KeyIds : keys[k].hwidLimit = 2 /\ task[t].result = <<k>>

\* /syncvip whitelisted both members and the redemption went through
C22_WitnessSync ==
    \E t \in TaskIds :
        /\ FollowingLookup(t) /\ task[t].userId = "102" /\ task[t].refreshes = 0
        /\ task[t].result = <<KeyA>> /\ whitelist["101"].key = KeyB

\* ==================== SpecBotKeys: bot.js getUserActiveKeys ====================
BotStarts == 2
BotTicks == 3

\* the records of keys/KeyA: bound to "101" or carrying only its tag,
\* permanent or with an expiry that has passed or lies ahead,
\* whitelist-flagged or not
BotRecordChoices ==
    {NoKeyDoc,
     KeyRec("101", NoTag, FALSE, NullTime),
     KeyRec("101", TagOf("101"), FALSE, PastExpiry),
     KeyRec("101", NoTag, TRUE, PastExpiry),
     KeyRec(Null, TagOf("101"), FALSE, SoonExpiry),
     KeyRec(Null, TagOf("101"), TRUE, NullTime)}

InitBotKeys ==
    /\ \E a \in BotRecordChoices, b \in {NoKeyDoc, KeyRec(Null, TagOf("101"), FALSE, PastExpiry),
                                         KeyRec("101", NoTag, FALSE, NullTime)} :
          keys = [k \in KeyIds |-> IF k = KeyA THEN a ELSE b]
    /\ generated_keys = [k \in KeyIds |-> NoPendingDoc]
    /\ whitelist = [u \in Users |-> NoWhitelistDoc]
    /\ blacklist = {}
    /\ EmptyMemInit /\ NoTasksInit /\ NoCodecInit /\ NoBatchInit

NextBotKeys ==
    \/ (started < BotStarts /\ \E t \in TaskIds : BotLookup(t, "101"))
    \/ \E t \in TaskIds : BotKeysNext(t)
    \/ (/\ now < StartTime + BotTicks * RETRY_DELAY
        /\ \E s \in TaskIds : task[s].pc = "bb_timer" /\ now < task[s].dueAt
        /\ Tick(RETRY_DELAY))

SpecBotKeys == InitBotKeys /\ [][NextBotKeys]_vars

\* a call of bot.js getUserActiveKeys that went to the store has returned
BotMissReturned(t) ==
    task[t].op = "botLookup" /\ task[t].pc = "done" /\ task[t].rfStatus = "ok"

\* the records the two queries of the call found
BotFound(t) == Docs(task[t].userIdSnapshot) \cup Docs(task[t].tagSnapshot)

\* C31 -- bot.js getUserActiveKeys never classifies a whitelist-flagged
\* record as expired: every whitelist-flagged record its queries found is
\* in the returned set and is not among the deletions of its batch.
C31_WhitelistedNeverExpired ==
    \A t \in TaskIds :
        BotMissReturned(t) =>
            \A d \in BotFound(t) :
                d.data.whitelisted =>
                    /\ d.id \in Range(task[t].result)
                    /\ OpDelete("keys", d.id) \notin Range(task[t].updateOperations)

\* a whitelist-flagged record of "101" with a past expiresAt was found,
\* left out of the result, and the batch has deleted it
C31_Witness ==
    \E t \in TaskIds :
        /\ BotMissReturned(t)
        /\ \E d \in Docs(task[t].userIdSnapshot) :
              /\ d.id = KeyA /\ d.data.whitelisted /\ d.data.expiresAt = PastExpiry
              /\ KeyA \notin Range(task[t].result)
        /\ ~keys[KeyA].exists

\* a detached batch of bot.js getUserActiveKeys runs in frame s
BotBatch(s) == task[s].op = "botBatch" /\ task[s].pc # "idle"

\* frame t returns from a call of getUserActiveKeys that read the store
BotMissReturns(t) ==
    /\ task[t].op = "botLookup" /\ task[t].rfStatus = "running"
    /\ task'[t].rfStatus = "ok"

\* frame s holds, after this step, a batch that was not there before
BotBatchStarts(s) ==
    /\ task'[s].op = "botBatch" /\ task'[s].pc = "bb_commit" /\ task'[s].attempts = 1
    /\ task[s].pc \in {"idle", "done"}

\* C37 -- the migration/cleanup batch of bot.js getUserActiveKeys is
\* committed at most 3 times; an attempt after the first is started only
\* when every attempt before it has failed and fewer than 3 were made;
\* nothing follows a success or the third failure; and the call writes the
\* cache and returns in the step that issues the first attempt, before any
\* attempt has settled.
C37_BoundedRetry ==
    /\ [](\A s \in TaskIds :
            BotBatch(s) =>
                /\ task[s].attempts <= maxRetries
                /\ task[s].pc = "bb_commit" => task[s].attempts = task[s].retryCount + 1
                /\ task[s].pc = "bb_timer"
                      => task[s].attempts = task[s].retryCount /\ task[s].attempts < maxRetries
                /\ task[s].pc = "done"
                      => \/ task[s].outcome = "committed"
                               /\ task[s].attempts = task[s].retryCount + 1
                         \/ task[s].outcome = "exhausted"
                               /\ task[s].attempts = maxRetries
                               /\ task[s].retryCount = maxRetries)
    /\ [][\A s \in TaskIds :
            /\ (BotBatch(s) /\ task[s].pc = "done")
                  => \/ task'[s] = task[s]
                     \/ task'[s].op # "botBatch"
                     \/ BotBatchStarts(s)
            /\ (BotBatch(s) /\ task'[s].attempts > task[s].attempts /\ ~BotBatchStarts(s))
                  => /\ task[s].pc = "bb_timer"
                     /\ task'[s].attempts = task[s].attempts + 1
            /\ BotMissReturns(s)
                  => /\ task'[s].pc = "done" /\ task'[s].outcome = "returned"
                     /\ userKeyCache'[task[s].userId] = BotCacheEntry(task'[s].result)
                     /\ keys' = keys
                     /\ IF task'[s].updateOperations = <<>>
                        THEN \A b \in TaskIds : ~BotBatchStarts(b)
                        ELSE \E b \in TaskIds :
                                /\ BotBatchStarts(b)
                                /\ task'[b].operations = task'[s].updateOperations
                                /\ task'[b].retryCount = 0]_vars

\* three attempts were made and all three failed: the batch gave up
C37_Witness ==
    \E s \in TaskIds :
        /\ BotBatch(s) /\ task[s].pc = "done" /\ task[s].outcome = "exhausted"
        /\ task[s].attempts = 3 /\ task[s].retryCount = 3
        /\ now >= task[s].calledAt + 3 * RETRY_DELAY

\* the second attempt succeeded, one second after the first had failed
C37_WitnessRetried ==
    \E s \in TaskIds :
        /\ BotBatch(s) /\ task[s].pc = "done" /\ task[s].outcome = "committed"
        /\ task[s].attempts = 2 /\ task[s].retryCount = 1

\* the call has returned and written the cache while its batch is outstanding
C37_WitnessDetached ==
    \E t, s \in TaskIds :
        /\ BotMissReturned(t) /\ task[t].updateOperations # <<>>
        /\ BotBatch(s) /\ task[s].pc = "bb_commit" /\ task[s].attempts = 1
        /\ userKeyCache["101"].present

\* ==================== bot.js: CACHE AFTER A KEY-CHANGING OPERATION ====================
BotCommandStarts == 3
BotCommandTicks == 1

\* a free identifier is left for generateKey()
KeyLeft ==
    \E k \in KeyIds :
        /\ ~keys[k].exists /\ ~generated_keys[k].exists
        /\ \A u \in Users : whitelist[u].key # k
        /\ \A s \in TaskIds : \A i \in 1..Len(task[s].operations) :
               task[s].operations[i].coll \in {"keys", "generated_keys"}
                   => task[s].operations[i].id # k

BotHandlerRunning ==
    \E s \in TaskIds : task[s].op \in BotCommands /\ task[s].pc \notin {"idle", "done"}

\* "101" holds nothing, a redeemed permanent key, or a whitelist grant with
\* its key; KeyB is free or waits to be redeemed
InitBotCommands ==
    /\ \E shape \in {"none", "owned", "granted"}, pending \in BOOLEAN :
          /\ keys = [k \in KeyIds |->
                        IF k = KeyA /\ shape = "owned" THEN KeyRec("101", NoTag, FALSE, NullTime)
                        ELSE IF k = KeyA /\ shape = "granted" THEN BotWhitelistKeyRecord("101")
                        ELSE NoKeyDoc]
          /\ generated_keys = [k \in KeyIds |->
                                 IF k = KeyB /\ pending
                                 THEN [exists |-> TRUE, expiresInDays |-> NullTime]
                                 ELSE NoPendingDoc]
          /\ whitelist = [u \in Users |->
                            IF u = "101" /\ shape = "granted"
                            THEN WhitelistGrant(TagOf("101"), KeyA) ELSE NoWhitelistDoc]
    /\ blacklist = {}
    /\ EmptyMemInit /\ NoTasksInit /\ NoCodecInit /\ NoBatchInit

\* lookups for "101" at any time; one handler at a time on "101"
NextBotCommands ==
    \/ (started < BotCommandStarts /\ \E t \in TaskIds : BotLookup(t, "101"))
    \/ /\ started < BotCommandStarts /\ ~BotHandlerRunning
       /\ \E t \in TaskIds, kind \in BotCommands \ {"botRedeem"} :
             /\ kind = "botWhitelistAdd" => KeyLeft
             /\ BotCommand(t, kind, "101")
    \/ /\ started < BotCommandStarts /\ ~BotHandlerRunning
       /\ \E t \in TaskIds, keyInput \in {KeyB, AsTyped(KeyB), SubSeq(KeyB, 1, 3)} :
             BotRedeemSubmit(t, "101", keyInput)
    \/ \E t \in TaskIds, which \in {"userId", "tag"} : BotQuery(t, which)
    \/ \E t \in TaskIds : BotQueryError(t)
    \/ \E t \in TaskIds : BotCommandNext(t)
    \/ (now < StartTime + BotCommandTicks * BOT_COOLDOWN /\ Tick(BOT_COOLDOWN))

SpecBotCommands == InitBotCommands /\ [][NextBotCommands]_vars

\* the keys bot.js getUserActiveKeys finds for an identity in a store
BotStoredKeySet(st, userId) ==
    {k \in KeyIds : /\ st.keys[k].exists
                    /\ (st.keys[k].userId = userId \/ st.keys[k].usedByDiscord = TagOf(userId))
                    /\ ~BotExpired(st.keys[k], now)}

\* a call of bot.js getUserActiveKeys that began after a key-changing
\* handler had completed, with no other commit during the call, has returned
BotLookupAfter(t, ops) ==
    /\ task[t].op = "botLookup" /\ task[t].pc = "done" /\ task[t].outcome = "returned"
    /\ task[t].after.outcome = "success" /\ task[t].after.op \in ops

\* C38 -- once a bot.js operation that changes the key records of an
\* identity has completed, the next getUserActiveKeys for the identity
\* returns the key set of the updated store, not a cached set.
C38_FreshAfterOperation ==
    \A t \in TaskIds :
        BotLookupAfter(t, BotCommands) =>
            Range(task[t].result) = BotStoredKeySet(task[t].storeAtReturn, task[t].userId)

\* a lookup after a completed /whitelist add returned the set cached before
\* the command, which lacks the key the command wrote
C38_Witness ==
    \E t \in TaskIds :
        /\ BotLookupAfter(t, {"botWhitelistAdd"})
        /\ task[t].rfStatus # "ok"
        /\ \E k \in KeyIds : /\ keys[k].exists /\ keys[k].whitelisted
                             /\ keys[k].userId = task[t].userId
                             /\ k \notin Range(task[t].result)

\* a lookup after a completed /removekey returned a set that a cache miss,
\* in flight while the command committed, wrote after the command's delete
C38_WitnessInFlight ==
    \E t \in TaskIds :
        /\ BotLookupAfter(t, {"botRemovekey"})
        /\ task[t].rfStatus # "ok"
        /\ task[t].result # <<>>
        /\ BotStoredKeySet(task[t].storeAtReturn, task[t].userId) = {}

\* a lookup after a completed handler went to the store and returned its keys
C38_WitnessFresh ==
    \E t \in TaskIds :
        /\ BotLookupAfter(t, BotCommands \ {"botWhitelistAdd"})
        /\ task[t].rfStatus = "ok"
        /\ Range(task[t].result) = BotStoredKeySet(task[t].storeAtReturn, task[t].userId)
        /\ task[t].result # <<>>

\* ==================== SPECIFICATION: single flight under the sweeper ====================
\* Identity "101" presses the guarded buttons and submits the modal while
\* earlier handlers may still await a call; time passes, also during an
\* await, by a period of the cleanup and the length of a cooldown at once,
\* and the callback may run at any moment.
SingleFlightStarts == 2
SingleFlightSpans == 1
LongAwait == CLEANUP_INTERVAL + COOLDOWN_DURATION

NextSingleFlight ==
    \/ (/\ started < SingleFlightStarts
        /\ Cardinality(RunningFrames) <= 1
        /\ \E t \in TaskIds :
              \/ \E kind \in GuardedButtons : ButtonPressed(t, "101", kind)
              \/ \E keyInput \in HandlerInputs : RedeemSubmit(t, "101", keyInput))
    \/ \E t \in TaskIds : ButtonNext(t)
    \/ \E t \in TaskIds : RedeemNext(t)
    \/ \E t \in TaskIds : RefreshNext(t)
    \/ Cleanup
    \/ (/\ now + LongAwait <= StartTime + SingleFlightSpans * LongAwait
        /\ Elapse(LongAwait))

SpecSingleFlight == InitHandlers /\ [][NextSingleFlight]_vars

\* the execution in frame t is between its successful startOperation and
\* its endOperation
InGuard(t) == task[t].op \in GuardedOps /\ task[t].marker

\* C32 -- at most one execution of a guarded handler of a kind for an
\* identity is between its successful startOperation and its endOperation,
\* whatever the interleaving of handlers and runs of the sweeper, and an
\* endOperation removes only the marker that its own execution set.
C32_SingleFlight ==
    /\ [](\A t1, t2 \in TaskIds :
             (InGuard(t1) /\ InGuard(t2) /\ MarkerKey(task[t1]) = MarkerKey(task[t2]))
                 => t1 = t2)
    /\ [][\A t \in TaskIds :
             (InGuard(t) /\ ~task'[t].marker
                 /\ MarkerKey(task[t]) \in DOMAIN activeOperations)
                 => activeOperations[MarkerKey(task[t])] = task[t].calledAt]_vars

\* two redeem_submit executions of "101" are both inside the guard: the
\* sweeper removed the marker of the first, which still awaits a call, and
\* the second set its own
C32_Witness ==
    \E t1, t2 \in TaskIds :
        /\ t1 # t2 /\ InGuard(t1) /\ InGuard(t2)
        /\ task[t1].op = "redeem" /\ task[t2].op = "redeem"
        /\ task[t1].userId = task[t2].userId
        /\ task[t1].calledAt + STALE_OPERATION_AGE < task[t2].calledAt
        /\ activeOperations[MarkerKey(task[t2])] = task[t2].calledAt

\* the first of two such executions has ended and its endOperation removed
\* the marker of the second, which is still running
C32_WitnessStolen ==
    \E t1, t2 \in TaskIds :
        /\ t1 # t2 /\ InGuard(t2) /\ task[t1].op = task[t2].op
        /\ task[t1].pc = "done" /\ task[t1].outcome \notin {"cooldown", "in_progress"}
        /\ task[t1].userId = task[t2].userId
        /\ task[t1].calledAt + STALE_OPERATION_AGE < task[t2].calledAt
        /\ MarkerKey(task[t2]) \notin DOMAIN activeOperations

\* ---- the owners of the keys a refresh returns ----
\* the records the queries of the refresh of frame t returned, as read
RefreshFound(t) ==
    Docs(task[t].userIdSnapshot) \cup Docs(task[t].tagSnapshot)
        \cup Docs(task[t].usernameSnapshot)

\* the refresh run by frame t has returned its result
RefreshDoneOk(t) ==
    task[t].op \in {"lookup", "bg"} /\ task[t].pc = "done" /\ task[t].rfStatus = "ok"

\* C33 -- every key a refresh for U returns is the key of U's whitelist
\* grant or a record whose userId, as the refresh read it, was U or unset;
\* a record bound to another identity is never returned to U.
C33_OwnKeysOnly ==
    \A t \in TaskIds :
        RefreshDoneOk(t) =>
            \A k \in Range(task[t].result) :
                \/ task[t].whitelistDoc.exists /\ task[t].whitelistDoc.key = k
                \/ \E d \in RefreshFound(t) :
                      d.id = k /\ d.data.userId \in {task[t].userId, Null}

\* a refresh for "101" returned a record that an alias query reached and
\* that is bound to "102", and the record is still bound to "102"
C33_Witness ==
    \E t \in TaskIds :
        /\ RefreshDoneOk(t) /\ task[t].userId = "101"
        /\ \E d \in Docs(task[t].tagSnapshot) \cup Docs(task[t].usernameSnapshot) :
              /\ d.data.userId = "102"
              /\ d.id \in Range(task[t].result)
              /\ ~(task[t].whitelistDoc.exists /\ task[t].whitelistDoc.key = d.id)
              /\ keys[d.id].userId = "102"

\* ==================== SPECIFICATION: order of cache writes ====================
\* Identity "101", with nothing in the store or with a whitelist grant
\* whose key record is missing, redeems the pending KeyA (commit, then
\* invalidateUserCache) while calls of getUserActiveKeys for "101", forced
\* or not, run their refreshes, in the foreground or in the background;
\* time may pass.
OrderStarts == 2
OrderTicks == 1

InitOrder ==
    /\ keys = [k \in KeyIds |-> NoKeyDoc]
    /\ generated_keys = [k \in KeyIds |-> IF k = KeyA THEN PendingRecord(NullTime)
                                          ELSE NoPendingDoc]
    /\ \E granted \in BOOLEAN :
          whitelist = [u \in Users |->
                          IF u = "101" /\ granted THEN WhitelistGrant(TagOf("101"), KeyB)
                          ELSE NoWhitelistDoc]
    /\ blacklist = {}
    /\ EmptyMemInit /\ NoTasksInit /\ NoCodecInit /\ NoBatchInit

NextOrder ==
    \/ (/\ started < OrderStarts
        /\ \A s \in TaskIds : task[s].op # "redeem"
        /\ \E t \in TaskIds : RedeemSubmit(t, "101", KeyA))
    \/ (/\ started < OrderStarts
        /\ Cardinality(RunningFrames) < 2
        /\ \E t \in TaskIds, force \in BOOLEAN : Lookup(t, "101", force))
    \/ \E t \in TaskIds : RedeemNext(t)
    \/ \E t \in TaskIds : RefreshNext(t)
    \/ (AllQuiet /\ now < StartTime + OrderTicks * TickStep /\ Tick(TickStep))

SpecOrder == InitOrder /\ [][NextOrder]_vars

\* the keys of U's cache entry that the store holds for U
CachedAndStored(userId) ==
    IF userKeyCache[userId].present
    THEN Range(userKeyCache[userId].keys) \cap StoredKeySet(userId)
    ELSE {}

\* C34 as stated -- a refresh whose store reads preceded a committed
\* mutation never replaces an entry written by a refresh whose reads
\* followed it (a returning refresh drops no cached key that the store
\* holds for U), and once all refreshes have finished the cached key set
\* equals the key set of the store.
C34_InReadOrder ==
    /\ [][\A t \in TaskIds :
             RefreshReturnedOk(t) =>
                 CachedAndStored(task[t].userId) \subseteq Range(task'[t].result)]_vars
    /\ [](\A u \in Users :
             (AllQuiet /\ userKeyCache[u].present)
                 => Range(userKeyCache[u].keys) = StoredKeySet(u))

\* C34 -- refresh results are installed in the cache in the order in which
\* the refreshes complete: every refresh that returns replaces the entry of
\* U by its own result, stamped with the time of its return, whatever entry
\* it finds and whenever its store reads were made; so once all refreshes
\* have finished the cached key set is the result of the refresh that
\* completed last.
C34_InCompletionOrder ==
    [][\A t \in TaskIds :
          RefreshReturnedOk(t) =>
              /\ userKeyCache'[task[t].userId].present
              /\ userKeyCache'[task[t].userId].keys = task'[t].result
              /\ userKeyCache'[task[t].userId].lastRefresh = now]_vars

\* the refresh of a lookup, whose store reads preceded the commit of the
\* redemption, completed after the refresh of the invalidation: all calls
\* have ended, and the cache lacks the redeemed key that the entry of the
\* invalidation held
C34_Witness ==
    \E t, s \in TaskIds :
        /\ AllQuiet
        /\ task[t].op = "redeem" /\ task[t].outcome = "success" /\ task[t].rfStatus = "ok"
        /\ task[t].result = <<KeyA, KeyB>>
        /\ task[s].op = "lookup" /\ task[s].rfStatus = "ok" /\ task[s].result = <<KeyB>>
        /\ userKeyCache["101"].present
        /\ userKeyCache["101"].keys = <<KeyB>>
        /\ StoredKeySet("101") = {KeyA, KeyB}

\* the refreshes completed in the order of their reads and the cache holds
\* both keys
C34_WitnessInOrder ==
    \E t, s \in TaskIds :
        /\ AllQuiet
        /\ task[t].op = "redeem" /\ task[t].outcome = "success" /\ task[t].rfStatus = "ok"
        /\ task[s].op = "lookup" /\ task[s].rfStatus = "ok" /\ task[s].result = <<KeyB>>
        /\ userKeyCache["101"].keys = <<KeyA, KeyB>>
        /\ StoredKeySet("101") = {KeyA, KeyB}

\* ==================== SPECIFICATION: revoking the keys of an identity ====================
\* "101" owns KeyA; KeyB is absent, or owned by "101" too, or a record
\* that only carries the tag of "101" (no userId), or named by a whitelist
\* grant of "101" without a record.  An admin runs /removekey or
\* /blacklist add for "101"; once the command has replied with success, the
\* keys of "101" are looked up, with forceRefresh or without.
RevokeStarts == 2

InitRevoke ==
    /\ \E second \in {"none", "owned", "alias", "granted"} :
          /\ keys = [k \in KeyIds |->
                        IF k = KeyA THEN KeyRec("101", TagOf("101"), FALSE, NullTime)
                        ELSE IF second = "owned" THEN KeyRec("101", TagOf("101"), FALSE, NullTime)
                        ELSE IF second = "alias" THEN KeyRec(Null, TagOf("101"), FALSE, NullTime)
                        ELSE NoKeyDoc]
          /\ whitelist = [u \in Users |->
                            IF u = "101" /\ second = "granted"
                            THEN WhitelistGrant(TagOf("101"), KeyB) ELSE NoWhitelistDoc]
    /\ generated_keys = [k \in KeyIds |-> NoPendingDoc]
    /\ blacklist = {}
    /\ EmptyMemInit /\ NoTasksInit /\ NoCodecInit /\ NoBatchInit

\* the command is the first call; the lookups follow its success
NextRevoke ==
    \/ (started = 0 /\ \E t \in TaskIds : RemoveKey(t, "101"))
    \/ (started = 0 /\ \E t \in TaskIds : BlacklistAdd(t, "101"))
    \/ (/\ started >= 1 /\ started < RevokeStarts
        /\ AllQuiet
        /\ \E s \in TaskIds : /\ task[s].op \in {"removekey", "blacklistAdd", "lookup"}
                              /\ task[s].outcome \in {"success", "returned"}
        /\ \E t \in TaskIds, force \in BOOLEAN : Lookup(t, "101", force))
    \/ \E t \in TaskIds : BlacklistNext(t)
    \/ \E t \in TaskIds : RemoveKeyWhitelistRead(t)
    \/ \E t \in TaskIds : CommandCommit(t)
    \/ \E t \in TaskIds : CommandNotified(t)
    \/ \E t \in TaskIds : RefreshNext(t)

SpecRevoke == InitRevoke /\ [][NextRevoke]_vars

\* C35 -- after /removekey or /blacklist add for U has completed
\* successfully, a forced lookup of U's active keys returns the empty set,
\* whatever the store held, also records reachable through U's tag only.
C35_NothingLeft ==
    \A t \in TaskIds :
        (LookupReturned(t) /\ task[t].force) => task[t].result = <<>>

\* the forced lookup after the command returned the record that carried
\* only the tag of "101": the command left it in the store, and the
\* refresh of its invalidation bound it to "101"
C35_Witness ==
    \E t \in TaskIds :
        /\ LookupReturned(t) /\ task[t].force
        /\ task[t].result = <<KeyB>>
        /\ ~keys[KeyA].exists
        /\ keys[KeyB].exists /\ keys[KeyB].userId = "101"
        /\ Docs(task[t].userIdSnapshot) # {}

\* the forced lookup after the command found nothing
C35_WitnessEmpty ==
    \E t \in TaskIds :
        /\ LookupReturned(t) /\ task[t].force /\ task[t].result = <<>>
        /\ \A k \in KeyIds : ~keys[k].exists

\* ==================== SPECIFICATION: spacing of redemptions ====================
\* Identity "101" submits the modal for the pending KeyA and KeyB, at any
\* time and also while an earlier submission still runs; time passes in
\* seconds and, once, by more than a period of the cleanup, also during an
\* await; the cleanup callback may run at any moment.
GapStarts == 3
GapTicks == 1
GapSpans == 1
SECOND_MS == 1000

InitGap ==
    /\ keys = [k \in KeyIds |-> NoKeyDoc]
    /\ generated_keys = [k \in KeyIds |-> PendingRecord(NullTime)]
    /\ whitelist = [u \in Users |-> NoWhitelistDoc]
    /\ blacklist = {}
    /\ EmptyMemInit /\ NoTasksInit /\ NoCodecInit /\ NoBatchInit

\* the two pending keys, and a text that is no key
GapInputs == KeyIds \cup {SubSeq(KeyA, 1, Len(KeyA) - 1)}

\* the time that has passed in seconds, and in long spans
GapSeconds == ((now - StartTime) % LongAwait) \div SECOND_MS
GapLong == (now - StartTime) \div LongAwait

NextGap ==
    \/ (/\ started < GapStarts
        /\ \E t \in TaskIds, keyInput \in GapInputs : RedeemSubmit(t, "101", keyInput))
    \/ \E t \in TaskIds : RedeemNext(t)
    \/ \E t \in TaskIds, which \in {"userId", "whitelist"} : RefreshQuery(t, which)
    \/ Cleanup
    \/ (GapSeconds < GapTicks /\ Elapse(SECOND_MS))
    \/ (GapLong < GapSpans /\ Elapse(LongAwait))

SpecGap == InitGap /\ [][NextGap]_vars

\* C36 -- the arrival times of any two redeem_submit interactions of an
\* identity that both end in success differ by at least COOLDOWN_DURATION,
\* whatever the interleaving of the interactions and the runs of the
\* cleanup callback.
C36_RedeemSpacing ==
    \A u \in Users :
        \A x, y \in Redeemed(u) :
            x.seq # y.seq => (x.at - y.at >= COOLDOWN_DURATION \/ y.at - x.at >= COOLDOWN_DURATION)

\* two submissions of "101" that arrived less than COOLDOWN_DURATION apart
\* both ended in success: the earlier one had taken the marker that the
\* cleanup had removed from a third, still running submission, whose end
\* then removed that marker
C36_Witness ==
    \E x, y \in Redeemed("101") :
        /\ x.seq < y.seq /\ y.at - x.at < COOLDOWN_DURATION
        /\ keys[KeyA].exists /\ keys[KeyB].exists
        /\ keys[KeyA].userId = "101" /\ keys[KeyB].userId = "101"

\* a submission that arrived less than COOLDOWN_DURATION after a successful
\* one had completed was refused for the cooldown
C36_WitnessCooldown ==
    \E t \in TaskIds :
        /\ task[t].op = "redeem" /\ task[t].pc = "done" /\ task[t].outcome = "cooldown"
        /\ \E x \in task[t].earlier :
              task[t].calledAt - x.at < COOLDOWN_DURATION

\* a submission that arrived while another of "101" was running was
\* refused for the marker
C36_WitnessInProgress ==
    \E t, s \in TaskIds :
        /\ task[t].op = "redeem" /\ task[t].pc = "done" /\ task[t].outcome = "in_progress"
        /\ task[s].op = "redeem" /\ task[s].userId = task[t].userId
        /\ task[s].seq < task[t].seq /\ task[s].marker

====
